---- MODULE Spec2Model ----
(***************************************************************************)
(* Model of the decision pipeline of agenai-trader.                        *)
(*                                                                         *)
(* Part 1: ThresholdAtrPolicy (packages/plugins policy/thresholdAtr).      *)
(*                                                                         *)
(* JavaScript numbers are modelled as exact signed rationals extended with *)
(* the IEEE-754 special values: a number is a triple <<s, n, d>> with sign *)
(* s in {1,-1} and magnitude n/d in lowest terms; <<s,0,1>> is +0 or -0,   *)
(* <<s,1,0>> is +Infinity or -Infinity and <<1,0,0>> is NaN.  The special  *)
(* cases of *, /, +, -, <, Math.min and Math.abs follow IEEE-754; rounding,*)
(* overflow and underflow of finite values are not modelled.  The triple   *)
(* <<0,0,0>> stands for the JavaScript value undefined (an absent key).    *)
(***************************************************************************)
EXTENDS Integers, Sequences, FiniteSets, TLC

\* ------------------------------------------------------------------------
\* JavaScript numbers
\* ------------------------------------------------------------------------

RECURSIVE GCD(_, _)
GCD(a, b) ==
    IF b = 0 THEN a ELSE GCD(b, a % b)

NaN == <<1, 0, 0>>

Undefined == <<0, 0, 0>>

Norm(s, n, d) ==
    IF n = 0 /\ d = 0 THEN NaN
    ELSE IF d = 0 THEN <<s, 1, 0>>
    ELSE IF n = 0 THEN <<s, 0, 1>>
    ELSE LET g == GCD(n, d) IN <<s, n \div g, d \div g>>

\* the literal n/d (n an integer, d a positive integer)
R(n, d) ==
    IF n < 0 THEN Norm(-1, -n, d) ELSE Norm(1, n, d)

Zero == R(0, 1)

One == R(1, 1)

Infinity == <<1, 1, 0>>

IsUndefined(x) ==
    x = Undefined

\* isNaN(x) for x a number
IsNaN(x) ==
    x = NaN

IsInf(x) ==
    x[2] = 1 /\ x[3] = 0

\* unary minus
Neg(x) ==
    IF IsNaN(x) THEN NaN ELSE <<-x[1], x[2], x[3]>>

\* x * y
Mul(x, y) ==
    IF IsNaN(x) \/ IsNaN(y) THEN NaN
    ELSE Norm(x[1] * y[1], x[2] * y[2], x[3] * y[3])

\* x / y
Div(x, y) ==
    IF IsNaN(x) \/ IsNaN(y) THEN NaN
    ELSE Norm(x[1] * y[1], x[2] * y[3], x[3] * y[2])

\* x + y
Add(x, y) ==
    IF IsNaN(x) \/ IsNaN(y) THEN NaN
    ELSE IF IsInf(x) /\ IsInf(y) THEN (IF x[1] = y[1] THEN x ELSE NaN)
    ELSE IF IsInf(x) THEN x
    ELSE IF IsInf(y) THEN y
    ELSE LET a == x[1] * x[2] * y[3] + y[1] * y[2] * x[3]
             d == x[3] * y[3]
         IN  IF a = 0 THEN <<(IF x[1] = -1 /\ y[1] = -1 THEN -1 ELSE 1), 0, 1>>
             ELSE IF a < 0 THEN Norm(-1, -a, d)
             ELSE Norm(1, a, d)

\* x - y
Sub(x, y) ==
    Add(x, Neg(y))

\* x < y
Lt(x, y) ==
    /\ ~IsNaN(x)
    /\ ~IsNaN(y)
    /\ IF IsInf(x) \/ IsInf(y)
       THEN \/ (IsInf(x) /\ x[1] = -1 /\ x # y)
            \/ (IsInf(y) /\ y[1] = 1 /\ x # y)
       ELSE x[1] * x[2] * y[3] < y[1] * y[2] * x[3]

\* x > y
Gt(x, y) ==
    Lt(y, x)

\* x >= y
Ge(x, y) ==
    ~IsNaN(x) /\ ~IsNaN(y) /\ ~Lt(x, y)

\* x <= y
Le(x, y) ==
    Ge(y, x)

\* x === y on numbers (+0 === -0, NaN !== NaN)
EqNum(x, y) ==
    ~IsNaN(x) /\ ~IsNaN(y) /\ ~Lt(x, y) /\ ~Lt(y, x)

\* Math.abs(x)
Abs(x) ==
    IF IsNaN(x) THEN NaN ELSE <<1, x[2], x[3]>>

\* Math.min(x, y)
Min(x, y) ==
    IF IsNaN(x) \/ IsNaN(y) THEN NaN
    ELSE IF Lt(x, y) THEN x
    ELSE IF Lt(y, x) THEN y
    ELSE IF x[1] = -1 THEN x ELSE y

\* ------------------------------------------------------------------------
\* Schemas (zod): z.number() accepts every number except NaN (Infinity is
\* accepted), and rejects undefined unless the key is optional or defaulted.
\* ------------------------------------------------------------------------

\* z.number()
IsNumber(x) ==
    ~IsUndefined(x) /\ ~IsNaN(x)

\* z.number().positive()
IsPositive(x) ==
    IsNumber(x) /\ Gt(x, Zero)

\* z.number().min(lo).max(hi)
InRange(x, lo, hi) ==
    IsNumber(x) /\ Ge(x, lo) /\ Le(x, hi)

\* z.number()....default(dflt) applied to a possibly absent key
WithDefault(x, dflt) ==
    IF IsUndefined(x) THEN dflt ELSE x

DefaultEnterThreshold == R(1, 2)

DefaultExitThreshold == R(3, 10)

DefaultFixedNotional == R(1000, 1)

DefaultUseAtrSizing == FALSE

DefaultAtrSizingMultiplier == R(1, 1)

DefaultAtrTpMultiplier == R(2, 1)

DefaultAtrSlMultiplier == R(1, 1)

DefaultMaxSize == R(10, 1)

\* The object ThresholdAtrConfigSchema.parse(raw) builds: defaults filled in.
\* In a raw configuration a numeric key that is absent is Undefined and
\* useAtrSizing is <<>> when absent, <<b>> when given.
ConfigWithDefaults(raw) ==
    [ enterThreshold      |-> WithDefault(raw.enterThreshold, DefaultEnterThreshold),
      exitThreshold       |-> WithDefault(raw.exitThreshold, DefaultExitThreshold),
      fixedNotional       |-> WithDefault(raw.fixedNotional, DefaultFixedNotional),
      useAtrSizing        |-> IF raw.useAtrSizing = <<>> THEN DefaultUseAtrSizing
                              ELSE raw.useAtrSizing[1],
      atrSizingMultiplier |-> WithDefault(raw.atrSizingMultiplier, DefaultAtrSizingMultiplier),
      atrTpMultiplier     |-> WithDefault(raw.atrTpMultiplier, DefaultAtrTpMultiplier),
      atrSlMultiplier     |-> WithDefault(raw.atrSlMultiplier, DefaultAtrSlMultiplier),
      maxSize             |-> WithDefault(raw.maxSize, DefaultMaxSize) ]

\* ThresholdAtrConfigSchema.parse(raw) does not throw
ThresholdAtrConfigSchemaOk(raw) ==
    LET c == ConfigWithDefaults(raw)
    IN  /\ InRange(c.enterThreshold, Zero, One)
        /\ InRange(c.exitThreshold, Zero, One)
        /\ IsPositive(c.fixedNotional)
        /\ IsPositive(c.atrSizingMultiplier)
        /\ IsPositive(c.atrTpMultiplier)
        /\ IsPositive(c.atrSlMultiplier)
        /\ IsPositive(c.maxSize)

\* AlphaSignalSchema.parse(signal) does not throw (id, t, symbol, exch, tf and
\* horizon_sec of the signals considered here are always well-formed)
AlphaSignalSchemaOk(signal) ==
    /\ signal.id # ""
    /\ signal.t > 0
    /\ InRange(signal.score, Neg(One), One)
    /\ InRange(signal.conf, Zero, One)

\* mutant: a features schema that lets NaN through
FeaturesSchemaOk_AcceptsNaN(features) ==
    \A k \in DOMAIN features.vals : Len(features.vals[k]) = 3

\* FeaturesSchema.parse(features) does not throw: every key present in vals
\* maps to a number (NaN is not a number for zod)
FeaturesSchemaOk(features) ==
    \A k \in DOMAIN features.vals :
        IsUndefined(features.vals[k]) \/ IsNumber(features.vals[k])

\* BracketSchema: tp and sl optional, positive when present
BracketSchemaOk(bracket) ==
    /\ IsUndefined(bracket.tp) \/ IsPositive(bracket.tp)
    /\ IsUndefined(bracket.sl) \/ IsPositive(bracket.sl)

\* ActionSchema.parse(action) does not throw; entry and bracket are optional
\* keys, metadata is a record of unknown values
ActionSchemaOk(action) ==
    /\ action.t > 0
    /\ action.symbol # ""
    /\ action.exch # ""
    /\ action.side \in {"buy", "sell"}
    /\ IsPositive(action.size)
    /\ ("entry" \in DOMAIN action => IsPositive(action.entry))
    /\ ("bracket" \in DOMAIN action => BracketSchemaOk(action.bracket))

\* ------------------------------------------------------------------------
\* ThresholdAtrPolicy
\* ------------------------------------------------------------------------

Null == "null"

\* what a call produces: a returned null, a returned action, or a thrown error
RetNull == [kind |-> "null"]

RetAction(a) == [kind |-> "action", action |-> a]

Throw(e) == [kind |-> "throw", error |-> e]

\* state = { side: null, size: 0 }
FlatState == [side |-> Null, size |-> Zero]

\* mutant: the direction test inverted
Direction_Flipped(score) ==
    IF Gt(score, Zero) THEN "sell" ELSE "buy"

\* const direction = signal.score > 0 ? "buy" : "sell"
Direction(score) ==
    IF Gt(score, Zero) THEN "buy" ELSE "sell"

\* mutant: the entry test reads the exit threshold
ShouldEnter_ExitThreshold(config, absScore) ==
    Ge(absScore, config.exitThreshold)

\* absScore >= this.config.enterThreshold
ShouldEnter(config, absScore) ==
    Ge(absScore, config.enterThreshold)

\* mutant: the exit comparison inverted
ShouldExit_Inverted(config, absScore) ==
    Gt(absScore, config.exitThreshold)

\* absScore < this.config.exitThreshold
ShouldExit(config, absScore) ==
    Lt(absScore, config.exitThreshold)

\* the guard of generateAction: both values present and not NaN
FeaturesUsable(atr, currentPrice) ==
    ~(IsUndefined(atr) \/ IsUndefined(currentPrice) \/ IsNaN(atr) \/ IsNaN(currentPrice))

\* mutant: the constructor demands enterThreshold > exitThreshold
HysteresisOk_Strict(c) ==
    Gt(c.enterThreshold, c.exitThreshold)

\* the constructor's check: enterThreshold >= exitThreshold
HysteresisOk(c) ==
    ~Lt(c.enterThreshold, c.exitThreshold)

\* mutant: the open action's metadata without the ATR value
OpenMetadata_NoAtr(signal, atr) ==
    [ signalId |-> signal.id, signalScore |-> signal.score,
      signalConf |-> signal.conf ]

\* metadata of an open action
OpenMetadata(signal, atr) ==
    [ signalId |-> signal.id, signalScore |-> signal.score,
      signalConf |-> signal.conf, atr |-> atr ]

\* metadata of a close action
CloseMetadata(signal) ==
    [ signalId |-> signal.id, reason |-> "exit_threshold" ]

\* mutant: the short side's bracket not mirrored
ComputeBracket_NotMirrored(config, entryPrice, atr, side) ==
    [ tp |-> Add(entryPrice, Mul(atr, config.atrTpMultiplier)),
      sl |-> Sub(entryPrice, Mul(atr, config.atrSlMultiplier)) ]

\* computeBracket(entryPrice, atr, side)
ComputeBracket(config, entryPrice, atr, side) ==
    LET tpDistance == Mul(atr, config.atrTpMultiplier)
        slDistance == Mul(atr, config.atrSlMultiplier)
    IN  IF side = "buy"
        THEN [tp |-> Add(entryPrice, tpDistance), sl |-> Sub(entryPrice, slDistance)]
        ELSE [tp |-> Sub(entryPrice, tpDistance), sl |-> Add(entryPrice, slDistance)]

\* mutant: the size not clamped to maxSize
OpenSize_Unclamped(config, currentPrice, atr) ==
    IF config.useAtrSizing
    THEN Div(config.fixedNotional, Mul(currentPrice, Mul(atr, config.atrSizingMultiplier)))
    ELSE Div(config.fixedNotional, currentPrice)

\* the size buildOpenAction computes before it builds the action
OpenSize(config, currentPrice, atr) ==
    LET riskAmount == Mul(atr, config.atrSizingMultiplier)
        size == IF config.useAtrSizing
                THEN Div(config.fixedNotional, Mul(currentPrice, riskAmount))
                ELSE Div(config.fixedNotional, currentPrice)
    IN  Min(size, config.maxSize)

\* buildOpenAction: the state is assigned before ActionSchema.parse runs
BuildOpenAction(config, state, signal, currentPrice, atr, direction) ==
    LET side == direction
        size == OpenSize(config, currentPrice, atr)
        bracket == ComputeBracket(config, currentPrice, atr, side)
        action == [ t |-> signal.t, symbol |-> signal.symbol, exch |-> signal.exch,
                    side |-> side, size |-> size, bracket |-> bracket,
                    metadata |-> OpenMetadata(signal, atr) ]
    IN  [ state |-> [side |-> side, size |-> size],
          ret   |-> IF ActionSchemaOk(action) THEN RetAction(action)
                    ELSE Throw("ZodError") ]

\* buildCloseAction: throws when already flat, else flattens the state and
\* then validates the close action
BuildCloseAction(state, signal, currentPrice) ==
    IF state.side = Null \/ EqNum(state.size, Zero)
    THEN [state |-> state, ret |-> Throw("Cannot close position: already flat")]
    ELSE LET closeSide == IF state.side = "buy" THEN "sell" ELSE "buy"
             closeSize == state.size
             action == [ t |-> signal.t, symbol |-> signal.symbol, exch |-> signal.exch,
                         side |-> closeSide, size |-> closeSize, entry |-> currentPrice,
                         metadata |-> CloseMetadata(signal) ]
         IN  [ state |-> FlatState,
               ret   |-> IF ActionSchemaOk(action) THEN RetAction(action)
                         ELSE Throw("ZodError") ]

\* mutant: the reversal returns the close leg and stays flat
Reverse_ReturnsClose(config, state, signal, currentPrice, atr, direction) ==
    BuildCloseAction(state, signal, currentPrice)

\* the reversal branch of generateAction: build (and validate) the close
\* action, discard it, flatten, open the opposite side
Reverse(config, state, signal, currentPrice, atr, direction) ==
    LET closed == BuildCloseAction(state, signal, currentPrice)
    IN  IF closed.ret.kind = "throw" THEN closed
        ELSE BuildOpenAction(config, FlatState, signal, currentPrice, atr, direction)

\* generateAction(signal, features): the new state and what the call produces
GenerateAction(config, state, signal, features) ==
    IF ~AlphaSignalSchemaOk(signal) THEN [state |-> state, ret |-> Throw("ZodError")]
    ELSE IF ~FeaturesSchemaOk(features) THEN [state |-> state, ret |-> Throw("ZodError")]
    ELSE
    LET atr == features.vals.atr_14
        currentPrice == features.vals.close
    IN  IF ~FeaturesUsable(atr, currentPrice)
        THEN [state |-> state, ret |-> RetNull]
        ELSE
        LET absScore == Abs(signal.score)
            direction == Direction(signal.score)
        IN  IF state.side = Null
            THEN IF ShouldEnter(config, absScore)
                 THEN BuildOpenAction(config, state, signal, currentPrice, atr, direction)
                 ELSE [state |-> state, ret |-> RetNull]
            ELSE LET currentDirection == IF state.side = "buy" THEN "buy" ELSE "sell"
                 IN  IF direction # currentDirection /\ ShouldEnter(config, absScore)
                     THEN Reverse(config, state, signal, currentPrice, atr, direction)
                     ELSE IF ShouldExit(config, absScore)
                     THEN BuildCloseAction(state, signal, currentPrice)
                     ELSE [state |-> state, ret |-> RetNull]

\* ------------------------------------------------------------------------
\* State machine: one policy instance and the calls made on it
\* ------------------------------------------------------------------------

VARIABLES
    constructed,  \* "none" before new ThresholdAtrPolicy(..), then "ok" or "failed"
    config,       \* this.config
    state,        \* this.state
    last,         \* the last call: its arguments, the state before it, its outcome
    riskCtx,      \* the RiskContext object the caller holds
    riskLast,     \* the last risk rule called: its argument and its verdict
    macdConfig,   \* MACDAlpha: this.config
    macdState,    \* MACDAlpha: this.state
    macdLast,     \* the last MACDAlpha call: its argument, the state before it, its outcome
    ar4Config,    \* AR4Alpha: this.config
    ar4State,     \* AR4Alpha: this.coefficients and this.returnHistory
    ar4Last,      \* the last AR4Alpha call: its argument, the state before it, its outcome
    ar4Fed,       \* the numeric returns handed to AR4Alpha so far, in arrival order
    ar4Fits,      \* for each fit so far, the number of numeric returns handed when it ran
    rollLast,     \* the last indicator call: its arguments and its result
    cacheKind,    \* the NormalizationCache handed to buildFeatures: "stub" or "store"
    cacheStore,   \* the mean and the standard deviation the cache holds for the key (null: none)
    builds,       \* per builder call: its position, arguments, cache reads and writes, outcome
    pendingWrites, \* the cache writes issued and not awaited, not yet settled
    replayConfig, \* ReplayEngine: this.config (events and filter)
    isPaused,     \* ReplayEngine: this.isPaused
    currentEventIndex, \* ReplayEngine: this.currentEventIndex
    runPc,        \* the run() call: "idle", "top" (between iterations), "waiting", "delaying", "done"
    runI,         \* the run() call: its loop variable i
    delivered,    \* the events handed to the handler since construction or the latest reset()
    runEmitted,   \* the events the run() call in progress (or the last one) has emitted
    replayLast    \* the last ReplayEngine call and its outcome

policyVars == <<constructed, config, state, last>>

riskVars == <<riskCtx, riskLast>>

macdVars == <<macdConfig, macdState, macdLast>>

ar4Vars == <<ar4Config, ar4State, ar4Last, ar4Fed, ar4Fits>>

rollVars == <<rollLast>>

factoryVars == <<cacheKind, cacheStore, builds, pendingWrites>>

replayVars ==
    <<replayConfig, isPaused, currentEventIndex, runPc, runI, delivered, runEmitted,
      replayLast>>

\* the components beside the decision side: indicator library, feature
\* factory, replay engine
restVars == <<rollVars, factoryVars, replayVars>>

\* the components of the decision side
decisionVars == <<policyVars, riskVars, macdVars, ar4Vars>>

\* everything but the indicator library, and everything but the factory
besidesRollVars == <<decisionVars, factoryVars, replayVars>>

besidesFactoryVars == <<decisionVars, rollVars, replayVars>>

vars == <<policyVars, riskVars, macdVars, ar4Vars, restVars>>

\* a component no object of which has been constructed
PolicyIdle ==
    /\ constructed = "none"
    /\ config = [none |-> TRUE]
    /\ state = [side |-> "null", size |-> <<1, 0, 1>>]
    /\ last = [op |-> "none"]

RiskIdle ==
    /\ riskCtx = [none |-> TRUE]
    /\ riskLast = [op |-> "none"]

MacdIdle ==
    /\ macdConfig = [none |-> TRUE]
    /\ macdState = [none |-> TRUE]
    /\ macdLast = [op |-> "none"]

Ar4Idle ==
    /\ ar4Config = [none |-> TRUE]
    /\ ar4State = [none |-> TRUE]
    /\ ar4Last = [op |-> "none"]
    /\ ar4Fed = <<>>
    /\ ar4Fits = <<>>

RollIdle ==
    rollLast = [op |-> "none"]

\* the two buildFeatures / buildFeaturesSync calls followed
Builders == {1, 2}

FactoryIdle ==
    /\ cacheKind = "stub"
    /\ cacheStore = [mean |-> <<0, 0, 1>>, std |-> <<0, 0, 1>>]
    /\ builds = [b \in Builders |-> [pc |-> "idle"]]
    /\ pendingWrites = {}

ReplayIdle ==
    /\ replayConfig = [none |-> TRUE]
    /\ isPaused = FALSE
    /\ currentEventIndex = 0
    /\ runPc = "idle"
    /\ runI = 0
    /\ delivered = <<>>
    /\ runEmitted = <<>>
    /\ replayLast = [op |-> "none"]

RestIdle ==
    /\ RollIdle
    /\ FactoryIdle
    /\ ReplayIdle

NoConfig == [none |-> TRUE]

\* raw configurations handed to the constructor (Undefined / <<>>: key absent)
EnterChoices == {Undefined, Zero, R(3, 2)}

ExitChoices == {Undefined, Zero, R(7, 10)}

UseAtrSizingChoices == {<<>>, <<TRUE>>}

RawConfigs ==
    [ enterThreshold      : EnterChoices,
      exitThreshold       : ExitChoices,
      fixedNotional       : {Undefined},
      useAtrSizing        : UseAtrSizingChoices,
      atrSizingMultiplier : {Undefined},
      atrTpMultiplier     : {Undefined},
      atrSlMultiplier     : {Undefined},
      maxSize             : {Undefined} ]

\* signals and features handed to generateAction
Scores == {R(-4, 5), R(-2, 5), R(-1, 5), Zero, R(1, 5), R(2, 5), R(4, 5), R(3, 2)}

Confs == {R(4, 5)}

Signals ==
    [ id : {"ar4-1000"}, t : {1000}, symbol : {"BTCUSDT"}, exch : {"BINANCE"},
      score : Scores, conf : Confs ]

\* <<atr_14, close>> pairs: an ordinary bar, a cheap instrument (the size is
\* clamped), an ATR larger than the price (a bracket level below zero), a
\* zero ATR, an absent key, a NaN value, an infinite and a negative price
FeaturePairs ==
    { <<R(500, 1), R(50000, 1)>>, <<R(1, 1), R(50, 1)>>, <<R(500, 1), R(50, 1)>>,
      <<Zero, R(50000, 1)>>, <<Undefined, R(50000, 1)>>, <<R(500, 1), Undefined>>,
      <<NaN, R(50000, 1)>>, <<R(500, 1), NaN>>, <<R(500, 1), Infinity>>,
      <<R(1, 1), R(-50, 1)>> }

FeatureSet ==
    { [vals |-> [atr_14 |-> p[1], close |-> p[2]]] : p \in FeaturePairs }

Init ==
    /\ constructed = "none"
    /\ config = NoConfig
    /\ state = FlatState
    /\ last = [op |-> "none"]
    /\ RiskIdle
    /\ MacdIdle
    /\ Ar4Idle
    /\ RestIdle

\* new ThresholdAtrPolicy(raw)
Construct(raw) ==
    /\ constructed = "none"
    /\ IF ~ThresholdAtrConfigSchemaOk(raw)
       THEN /\ constructed' = "failed"
            /\ config' = NoConfig
            /\ last' = [op |-> "constructor", raw |-> raw, ret |-> Throw("ZodError")]
       ELSE LET c == ConfigWithDefaults(raw)
            IN  IF ~HysteresisOk(c)
                THEN /\ constructed' = "failed"
                     /\ config' = c
                     /\ last' = [op |-> "constructor", raw |-> raw,
                                 ret |-> Throw("enterThreshold must be >= exitThreshold for proper hysteresis")]
                ELSE /\ constructed' = "ok"
                     /\ config' = c
                     /\ last' = [op |-> "constructor", raw |-> raw, ret |-> RetNull]
    /\ state' = FlatState
    /\ UNCHANGED <<riskVars, macdVars, ar4Vars, restVars>>

\* what the call just before this one returned, when it was a generateAction
\* call with this very signal and these very features ("none" otherwise)
RepeatOf(signal, features) ==
    IF /\ last.op = "generateAction"
       /\ last.signal = signal
       /\ last.features = features
    THEN last.ret.kind
    ELSE "none"

\* policy.generateAction(signal, features)
GenerateActionCall(signal, features) ==
    /\ constructed = "ok"
    /\ \E r \in {GenerateAction(config, state, signal, features)} :
           /\ state' = r.state
           /\ last' = [op |-> "generateAction", signal |-> signal, features |-> features,
                       pre |-> state, ret |-> r.ret,
                       repeatOf |-> RepeatOf(signal, features)]
    /\ UNCHANGED <<constructed, config, riskVars, macdVars, ar4Vars, restVars>>

\* policy.reset()
Reset ==
    /\ constructed = "ok"
    /\ state' = FlatState
    /\ last' = [op |-> "reset", pre |-> state]
    /\ UNCHANGED <<constructed, config, riskVars, macdVars, ar4Vars, restVars>>

Next ==
    \/ \E raw \in RawConfigs : Construct(raw)
    \/ \E signal \in Signals, features \in FeatureSet : GenerateActionCall(signal, features)
    \/ Reset

Spec == Init /\ [][Next]_vars

\* ------------------------------------------------------------------------
\* Properties of ThresholdAtrPolicy
\* ------------------------------------------------------------------------

\* the last call was generateAction and it returned (null or an action)
Returned ==
    last.op = "generateAction" /\ last.ret.kind # "throw"

\* the last generateAction call returned an action
ReturnedAction ==
    last.op = "generateAction" /\ last.ret.kind = "action"

LastScore == last.signal.score

LastAtr == last.features.vals.atr_14

LastClose == last.features.vals.close

\* the features of the last call carry atr_14 and close, both numeric
LastFeaturesPresent ==
    IsNumber(LastAtr) /\ IsNumber(LastClose)

\* an open action carries a bracket, a close action an entry price
IsOpenAction(a) ==
    "bracket" \in DOMAIN a /\ "entry" \notin DOMAIN a

IsCloseAction(a) ==
    "entry" \in DOMAIN a /\ "bracket" \notin DOMAIN a

OppositeSide(side) ==
    IF side = "buy" THEN "sell" ELSE "buy"

\* the side a signed score points to, "none" for a zero score
SideOfSign(score) ==
    IF Gt(score, Zero) THEN "buy" ELSE IF Lt(score, Zero) THEN "sell" ELSE "none"

\* the size the specification prescribes for an open at price p with ATR a
SpecSize(c, p, a) ==
    IF c.useAtrSizing
    THEN Min(c.maxSize, Div(c.fixedNotional, Mul(Mul(p, a), c.atrSizingMultiplier)))
    ELSE Min(c.maxSize, Div(c.fixedNotional, p))

C5_SideNullIffSizeZero ==
    constructed = "ok" => (state.side = Null <=> EqNum(state.size, Zero))

\* C6: construction fails whenever enterThreshold < exitThreshold, and succeeds,
\* leaving the policy Flat with size 0, whenever enterThreshold >= exitThreshold
\* with both in [0,1] (the remaining keys of the configuration being valid).
C6_ConstructorEnforcesHysteresis ==
    last.op = "constructor" =>
        LET c == ConfigWithDefaults(last.raw)
        IN  /\ Lt(c.enterThreshold, c.exitThreshold) =>
                 /\ constructed = "failed"
                 /\ last.ret.kind = "throw"
            /\ ( /\ Ge(c.enterThreshold, c.exitThreshold)
                 /\ InRange(c.enterThreshold, Zero, One)
                 /\ InRange(c.exitThreshold, Zero, One) ) =>
                 /\ constructed = "ok"
                 /\ last.ret.kind # "throw"
                 /\ state.side = Null
                 /\ EqNum(state.size, Zero)

\* C6 witness: a policy was constructed with enterThreshold = exitThreshold
C6_Witness ==
    /\ last.op = "constructor"
    /\ constructed = "ok"
    /\ EqNum(config.enterThreshold, config.exitThreshold)

\* C6 second case reached as well: a construction rejected for enter < exit
C6_WitnessRejected ==
    /\ last.op = "constructor"
    /\ constructed = "failed"
    /\ last.ret.error = "enterThreshold must be >= exitThreshold for proper hysteresis"

\* some value the features of the last call lack: absent, or present but NaN
LastFeaturesAbsent ==
    IsUndefined(LastAtr) \/ IsUndefined(LastClose)

LastFeaturesNaN ==
    IsNaN(LastAtr) \/ IsNaN(LastClose)

C9_BracketLevels ==
    (ReturnedAction /\ IsOpenAction(last.ret.action) /\ Gt(LastAtr, Zero)) =>
        LET a == last.ret.action
            tpDist == Mul(config.atrTpMultiplier, LastAtr)
            slDist == Mul(config.atrSlMultiplier, LastAtr)
        IN  /\ a.side = "buy" =>
                 /\ a.bracket.tp = Add(LastClose, tpDist)
                 /\ a.bracket.sl = Sub(LastClose, slDist)
                 /\ Gt(a.bracket.tp, LastClose)
                 /\ Lt(a.bracket.sl, LastClose)
            /\ a.side = "sell" =>
                 /\ a.bracket.tp = Sub(LastClose, tpDist)
                 /\ a.bracket.sl = Add(LastClose, slDist)
                 /\ Lt(a.bracket.tp, LastClose)
                 /\ Gt(a.bracket.sl, LastClose)

\* C9 witness: a short position was opened with a positive ATR
C9_Witness ==
    /\ ReturnedAction
    /\ IsOpenAction(last.ret.action)
    /\ Gt(LastAtr, Zero)
    /\ last.ret.action.side = "sell"

\* the metadata m carries the triggering signal's id, score and confidence
CarriesSignal(m) ==
    /\ "signalId" \in DOMAIN m /\ m.signalId = last.signal.id
    /\ "signalScore" \in DOMAIN m /\ m.signalScore = last.signal.score
    /\ "signalConf" \in DOMAIN m /\ m.signalConf = last.signal.conf

\* C10 (the claim as stated): every returned action, open or close, carries the
\* signal's id, score and confidence; every open action also the ATR used.
C10_Original ==
    ReturnedAction =>
        /\ CarriesSignal(last.ret.action.metadata)
        /\ IsOpenAction(last.ret.action) =>
              /\ "atr" \in DOMAIN last.ret.action.metadata
              /\ last.ret.action.metadata.atr = LastAtr

\* C10 (amended): every returned action carries the signal's id; an open action
\* (reversal included) also carries the signal's score and confidence and the
\* ATR used; a close action carries the reason "exit_threshold" and neither
\* the score nor the confidence.
C10_MetadataByKind ==
    ReturnedAction =>
        LET m == last.ret.action.metadata
        IN  /\ "signalId" \in DOMAIN m
            /\ m.signalId = last.signal.id
            /\ IsOpenAction(last.ret.action) =>
                  /\ CarriesSignal(m)
                  /\ "atr" \in DOMAIN m
                  /\ m.atr = LastAtr
            /\ IsCloseAction(last.ret.action) =>
                  DOMAIN m = {"signalId", "reason"}

\* C10 witness: a close action was returned
C10_Witness ==
    /\ ReturnedAction
    /\ IsCloseAction(last.ret.action)
    /\ last.ret.action.metadata.reason = "exit_threshold"

----------------------------------------------------------------------------
\* Risk rules (packages/plugins/src/risk/rules.ts)

Allow == [allow |-> TRUE]

Block(reason) == [allow |-> FALSE, reason |-> reason]

\* mutant: the loss limit itself already blocks
MaxDailyLossRule_NonStrict(ctx) ==
    IF Le(ctx.pnl, Neg(ctx.maxDailyLoss)) THEN Block("max daily loss") ELSE Allow

MaxDailyLossRule(ctx) ==
    IF Lt(ctx.pnl, Neg(ctx.maxDailyLoss)) THEN Block("max daily loss") ELSE Allow

MaxExposureRule(ctx) ==
    IF Gt(ctx.exposure, ctx.maxExposure) THEN Block("max exposure") ELSE Allow

LeverageCapRule(ctx) ==
    IF Gt(ctx.leverage, ctx.maxLeverage) THEN Block("leverage cap") ELSE Allow

StaleFeedRule(ctx) ==
    IF ctx.feedStale THEN Block("stale feed") ELSE Allow

\* contexts handed to the rules: each value below, at and above its limit
PnlChoices == {R(-101, 1), R(-100, 1), R(-99, 1), Zero, NaN}

ExposureChoices == {R(999, 1), R(1000, 1), R(1001, 1)}

LeverageChoices == {R(2, 1), R(3, 1), R(4, 1)}

RiskContexts ==
    [ symbol : {"BTCUSDT"}, exch : {"BINANCE"},
      pnl : PnlChoices, exposure : ExposureChoices,
      maxDailyLoss : {R(100, 1)}, maxExposure : {R(1000, 1)},
      leverage : LeverageChoices, maxLeverage : {R(3, 1)},
      feedStale : BOOLEAN ]

RuleNames == {"maxDailyLossRule", "maxExposureRule", "leverageCapRule", "staleFeedRule"}

InitRisk ==
    /\ PolicyIdle
    /\ RiskIdle
    /\ MacdIdle
    /\ Ar4Idle
    /\ RestIdle

\* the caller builds a context object
NewContext(ctx) ==
    /\ riskCtx' = ctx
    /\ riskLast' = [op |-> "context"]
    /\ UNCHANGED <<policyVars, macdVars, ar4Vars, restVars>>

\* maxDailyLossRule(ctx)
MaxDailyLossRuleCall ==
    /\ riskCtx \in RiskContexts
    /\ riskLast' = [op |-> "maxDailyLossRule", ctx |-> riskCtx,
                    verdict |-> MaxDailyLossRule(riskCtx)]
    /\ UNCHANGED <<riskCtx, policyVars, macdVars, ar4Vars, restVars>>

\* maxExposureRule(ctx)
MaxExposureRuleCall ==
    /\ riskCtx \in RiskContexts
    /\ riskLast' = [op |-> "maxExposureRule", ctx |-> riskCtx,
                    verdict |-> MaxExposureRule(riskCtx)]
    /\ UNCHANGED <<riskCtx, policyVars, macdVars, ar4Vars, restVars>>

\* leverageCapRule(ctx)
LeverageCapRuleCall ==
    /\ riskCtx \in RiskContexts
    /\ riskLast' = [op |-> "leverageCapRule", ctx |-> riskCtx,
                    verdict |-> LeverageCapRule(riskCtx)]
    /\ UNCHANGED <<riskCtx, policyVars, macdVars, ar4Vars, restVars>>

\* staleFeedRule(ctx)
StaleFeedRuleCall ==
    /\ riskCtx \in RiskContexts
    /\ riskLast' = [op |-> "staleFeedRule", ctx |-> riskCtx,
                    verdict |-> StaleFeedRule(riskCtx)]
    /\ UNCHANGED <<riskCtx, policyVars, macdVars, ar4Vars, restVars>>

NextRisk ==
    \/ \E ctx \in RiskContexts : NewContext(ctx)
    \/ MaxDailyLossRuleCall
    \/ MaxExposureRuleCall
    \/ LeverageCapRuleCall
    \/ StaleFeedRuleCall

SpecRisk == InitRisk /\ [][NextRisk]_vars

\* the condition, the reason and the fields each rule is said to read
RuleBlocks(rule, ctx) ==
    CASE rule = "maxDailyLossRule" -> Lt(ctx.pnl, Neg(ctx.maxDailyLoss))
      [] rule = "maxExposureRule"  -> Gt(ctx.exposure, ctx.maxExposure)
      [] rule = "leverageCapRule"  -> Gt(ctx.leverage, ctx.maxLeverage)
      [] rule = "staleFeedRule"    -> ctx.feedStale = TRUE

RuleReason(rule) ==
    CASE rule = "maxDailyLossRule" -> "max daily loss"
      [] rule = "maxExposureRule"  -> "max exposure"
      [] rule = "leverageCapRule"  -> "leverage cap"
      [] rule = "staleFeedRule"    -> "stale feed"

RuleFields(rule) ==
    CASE rule = "maxDailyLossRule" -> {"pnl", "maxDailyLoss"}
      [] rule = "maxExposureRule"  -> {"exposure", "maxExposure"}
      [] rule = "leverageCapRule"  -> {"leverage", "maxLeverage"}
      [] rule = "staleFeedRule"    -> {"feedStale"}

RuleVerdict(rule, ctx) ==
    CASE rule = "maxDailyLossRule" -> MaxDailyLossRule(ctx)
      [] rule = "maxExposureRule"  -> MaxExposureRule(ctx)
      [] rule = "leverageCapRule"  -> LeverageCapRule(ctx)
      [] rule = "staleFeedRule"    -> StaleFeedRule(ctx)

\* C14: each rule blocks, with its own reason, exactly when its condition
\* holds strictly, and otherwise returns allow = true and no reason (also at
\* the limit); every context that agrees on the rule's own fields gets the
\* same verdict, and the context is the same object after the call.
C14_RulesBlockStrictly ==
    riskLast.op \in RuleNames =>
        LET rule == riskLast.op
            ctx == riskLast.ctx
            v == riskLast.verdict
        IN  /\ RuleBlocks(rule, ctx) => v = [allow |-> FALSE, reason |-> RuleReason(rule)]
            /\ ~RuleBlocks(rule, ctx) => v = [allow |-> TRUE]
            /\ \A other \in RiskContexts :
                   (\A f \in RuleFields(rule) : other[f] = ctx[f]) =>
                       RuleVerdict(rule, other) = v
            /\ riskCtx = ctx

\* C14 witness: maxDailyLossRule allowed a loss equal to the limit
C14_Witness ==
    /\ riskLast.op = "maxDailyLossRule"
    /\ riskLast.ctx.pnl = R(-100, 1)
    /\ riskLast.verdict = [allow |-> TRUE]

----------------------------------------------------------------------------
\* MACD alpha (packages/plugins/src/alpha/macd.ts)

\* null: a field of the state that holds no number yet
NullNum == <<0, 0, 1>>

\* Math.max(x, y)
Max(x, y) ==
    IF IsNaN(x) \/ IsNaN(y) THEN NaN
    ELSE IF Lt(x, y) THEN y
    ELSE IF Lt(y, x) THEN x
    ELSE IF x[1] = 1 THEN x ELSE y

\* x.toFixed(6): the sign and the number of millionths, halves rounded away
\* from zero
ToFixed6(x) ==
    IF IsNaN(x) THEN [neg |-> FALSE, micros |-> 0, special |-> "NaN"]
    ELSE IF IsInf(x) THEN [neg |-> Lt(x, Zero), micros |-> 0, special |-> "Infinity"]
    ELSE [neg |-> Lt(x, Zero),
          micros |-> (2 * x[2] * 1000000 + x[3]) \div (2 * x[3]),
          special |-> ""]

DefaultMinHistogram == R(1, 10000)

DefaultHorizonSec == 300

DefaultUseCrossover == TRUE

\* MACDConfigSchema.parse(raw) does not throw (horizonSec is left to its default)
MACDConfigSchemaOk(raw) ==
    IsUndefined(raw.minHistogram) \/ (IsNumber(raw.minHistogram) /\ Ge(raw.minHistogram, Zero))

MACDConfigWithDefaults(raw) ==
    [ minHistogram |-> WithDefault(raw.minHistogram, DefaultMinHistogram),
      horizonSec   |-> DefaultHorizonSec,
      useCrossover |-> IF raw.useCrossover = <<>> THEN DefaultUseCrossover
                       ELSE raw.useCrossover[1] ]

InitialMACDState ==
    [prevMacd |-> NullNum, prevSignal |-> NullNum, prevHistogram |-> NullNum]

RetSignal(sig) == [kind |-> "signal", signal |-> sig]

\* updateState(macd, signal, histogram)
UpdateState(macd, signal, histogram) ==
    [prevMacd |-> macd, prevSignal |-> signal, prevHistogram |-> histogram]

\* mutant: bullish and bearish exchanged
DetectCrossover_Exchanged(st, macd, signal) ==
    IF st.prevMacd = NullNum \/ st.prevSignal = NullNum THEN "none"
    ELSE IF Lt(st.prevMacd, st.prevSignal) /\ Gt(macd, signal) THEN "bearish"
    ELSE IF Gt(st.prevMacd, st.prevSignal) /\ Lt(macd, signal) THEN "bullish"
    ELSE "none"

\* detectCrossover(macd, signal); "none" stands for its null
DetectCrossover(st, macd, signal) ==
    IF st.prevMacd = NullNum \/ st.prevSignal = NullNum THEN "none"
    ELSE IF Lt(st.prevMacd, st.prevSignal) /\ Gt(macd, signal) THEN "bullish"
    ELSE IF Gt(st.prevMacd, st.prevSignal) /\ Lt(macd, signal) THEN "bearish"
    ELSE "none"

\* computeHistogramSignal: direction = histogram > 0 ? 1 : -1
HistogramDirection(histogram) ==
    IF Gt(histogram, Zero) THEN 1 ELSE -1

\* mutant: strengthening means a larger magnitude than the previous histogram
MomentumStrength_ByMagnitude(st, histogram) ==
    IF st.prevHistogram = NullNum THEN R(1, 2)
    ELSE IF Gt(Abs(histogram), Abs(st.prevHistogram)) THEN R(7, 10)
    ELSE R(3, 10)

\* computeHistogramSignal: momentumStrength
MomentumStrength(st, histogram) ==
    IF st.prevHistogram = NullNum THEN R(1, 2)
    ELSE LET histogramChange == Sub(histogram, st.prevHistogram)
             direction == HistogramDirection(histogram)
         IN  IF \/ (direction > 0 /\ Gt(histogramChange, Zero))
                \/ (direction < 0 /\ Lt(histogramChange, Zero))
             THEN R(7, 10)
             ELSE R(3, 10)

\* computeHistogramSignal(histogram)
ComputeHistogramSignal(st, histogram) ==
    LET momentumStrength == MomentumStrength(st, histogram)
    IN  [ score   |-> Max(Neg(One), Min(One, Mul(histogram, R(1000, 1)))),
          conf    |-> momentumStrength,
          explain |-> [ text     |-> IF HistogramDirection(histogram) > 0
                                     THEN "MACD histogram positive"
                                     ELSE "MACD histogram negative",
                        value    |-> ToFixed6(histogram),
                        momentum |-> IF Gt(momentumStrength, R(1, 2))
                                     THEN "strengthening" ELSE "weakening" ] ]

\* mutant: only an absent value is turned away, NaN is taken as an observation
MissingOrNaN_OnlyMissing(x) ==
    IsUndefined(x)

\* x === undefined || isNaN(x): the guard that opens generateSignal of both
\* generators
MissingOrNaN(x) ==
    IsUndefined(x) \/ IsNaN(x)

\* mutant: the noise filter returns without recording the observation
SuppressedState_Stale(st, macd, signal, histogram) ==
    st

\* the state left by the noise-filter branch (lines 99-103)
SuppressedState(st, macd, signal, histogram) ==
    UpdateState(macd, signal, histogram)

\* mutant: the crossover is looked for whatever the mode
MACDScoring_IgnoresMode(cfg, st, macd, signal, histogram) ==
    LET crossover == DetectCrossover(st, macd, signal)
    IN  IF crossover = "bullish"
        THEN [score |-> One, conf |-> R(4, 5),
              explain |-> [text |-> "MACD bullish crossover detected"]]
        ELSE IF crossover = "bearish"
        THEN [score |-> Neg(One), conf |-> R(4, 5),
              explain |-> [text |-> "MACD bearish crossover detected"]]
        ELSE ComputeHistogramSignal(st, histogram)

\* the score, confidence and explanation chosen by lines 105-134
MACDScoring(cfg, st, macd, signal, histogram) ==
    LET crossover == IF cfg.useCrossover /\ st.prevMacd # NullNum
                     THEN DetectCrossover(st, macd, signal)
                     ELSE "none"
    IN  IF crossover = "bullish"
        THEN [score |-> One, conf |-> R(4, 5),
              explain |-> [text |-> "MACD bullish crossover detected"]]
        ELSE IF crossover = "bearish"
        THEN [score |-> Neg(One), conf |-> R(4, 5),
              explain |-> [text |-> "MACD bearish crossover detected"]]
        ELSE ComputeHistogramSignal(st, histogram)

\* MACDAlpha.generateSignal(features): the state left and the outcome
MACDGenerateSignal(cfg, st, features) ==
    LET macd == features.vals.macd
        signal == features.vals.macd_signal
        histogram == features.vals.macd_histogram
    IN  IF MissingOrNaN(macd) \/ MissingOrNaN(signal) \/ MissingOrNaN(histogram)
        THEN [state |-> st, ret |-> RetNull]
        ELSE IF Lt(Abs(histogram), cfg.minHistogram)
        THEN [state |-> SuppressedState(st, macd, signal, histogram), ret |-> RetNull]
        ELSE LET sc == MACDScoring(cfg, st, macd, signal, histogram)
                 st2 == UpdateState(macd, signal, histogram)
                 alphaSignal == [ id |-> "macd-" \o ToString(features.t), t |-> features.t,
                                  symbol |-> features.symbol, exch |-> features.exch,
                                  tf |-> features.tf, score |-> sc.score,
                                  conf |-> sc.conf, horizon_sec |-> cfg.horizonSec,
                                  explain |-> sc.explain ]
             IN  IF EqNum(sc.score, Zero) \/ EqNum(sc.conf, Zero)
                 THEN [state |-> st2, ret |-> RetNull]
                 ELSE IF AlphaSignalSchemaOk(alphaSignal)
                 THEN [state |-> st2, ret |-> RetSignal(alphaSignal)]
                 ELSE [state |-> st2, ret |-> Throw("ZodError")]

\* configurations and features handed to MACDAlpha
MinHistogramChoices == {Undefined, Zero, R(-1, 1000)}

UseCrossoverChoices == {<<>>, <<FALSE>>}

RawMACDConfigs ==
    [minHistogram : MinHistogramChoices, useCrossover : UseCrossoverChoices]

\* <<macd, macd_signal, macd_histogram>>: the observations of the tests, a
\* crossing with a histogram below the noise threshold on either side, a
\* histogram small enough for an unclamped score, a zero histogram, an absent
\* key and a NaN value
MACDTriples ==
    { <<R(-1, 100), Zero, R(-1, 100)>>, <<R(1, 100), Zero, R(1, 100)>>,
      <<R(5, 1000), R(3, 1000), R(2, 1000)>>, <<R(8, 1000), R(3, 1000), R(5, 1000)>>,
      <<R(6, 1000), R(4, 1000), R(2, 1000)>>,
      <<R(1, 20000), Zero, R(1, 20000)>>, <<R(-1, 20000), Zero, R(-1, 20000)>>,
      <<R(5, 10000), Zero, R(5, 10000)>>, <<R(-5, 10000), Zero, R(-5, 10000)>>,
      <<Zero, Zero, Zero>>,
      <<Undefined, Zero, R(1, 100)>>, <<R(1, 100), Zero, NaN>> }

MACDFeatureSet ==
    { [ t |-> 1000, symbol |-> "BTCUSDT", exch |-> "BINANCE", tf |-> "1m",
        vals |-> [macd |-> p[1], macd_signal |-> p[2], macd_histogram |-> p[3]] ]
      : p \in MACDTriples }

InitMACD ==
    /\ PolicyIdle
    /\ RiskIdle
    /\ MacdIdle
    /\ Ar4Idle
    /\ RestIdle

\* new MACDAlpha(MACDConfigSchema.parse(raw))
MACDConstruct(raw) ==
    /\ macdConfig = [none |-> TRUE]
    /\ IF MACDConfigSchemaOk(raw)
       THEN /\ macdConfig' = MACDConfigWithDefaults(raw)
            /\ macdState' = InitialMACDState
            /\ macdLast' = [op |-> "constructor", raw |-> raw, ret |-> RetNull]
       ELSE /\ macdLast' = [op |-> "constructor", raw |-> raw, ret |-> Throw("ZodError")]
            /\ UNCHANGED <<macdConfig, macdState>>
    /\ UNCHANGED <<policyVars, riskVars, ar4Vars, restVars>>

\* alpha.generateSignal(features)
MACDGenerateSignalCall(features) ==
    /\ macdConfig # [none |-> TRUE]
    /\ \E r \in {MACDGenerateSignal(macdConfig, macdState, features)} :
           /\ macdState' = r.state
           /\ macdLast' = [op |-> "generateSignal", features |-> features,
                           pre |-> macdState, ret |-> r.ret]
    /\ UNCHANGED <<macdConfig, policyVars, riskVars, ar4Vars, restVars>>

\* alpha.reset()
MACDReset ==
    /\ macdConfig # [none |-> TRUE]
    /\ macdState' = InitialMACDState
    /\ macdLast' = [op |-> "reset", pre |-> macdState]
    /\ UNCHANGED <<macdConfig, policyVars, riskVars, ar4Vars, restVars>>

NextMACD ==
    \/ \E raw \in RawMACDConfigs : MACDConstruct(raw)
    \/ \E features \in MACDFeatureSet : MACDGenerateSignalCall(features)
    \/ MACDReset

SpecMACD == InitMACD /\ [][NextMACD]_vars

\* the last MACDAlpha call was generateSignal; its arguments
MACDCalled == macdLast.op = "generateSignal"

LastMacd == macdLast.features.vals.macd

LastMacdSignal == macdLast.features.vals.macd_signal

LastHistogram == macdLast.features.vals.macd_histogram

\* the previous observation lay below (above) its signal line and the current
\* one lies above (below)
CrossedUp ==
    /\ macdLast.pre.prevMacd # NullNum
    /\ Lt(macdLast.pre.prevMacd, macdLast.pre.prevSignal)
    /\ IsNumber(LastMacd) /\ IsNumber(LastMacdSignal)
    /\ Gt(LastMacd, LastMacdSignal)

CrossedDown ==
    /\ macdLast.pre.prevMacd # NullNum
    /\ Gt(macdLast.pre.prevMacd, macdLast.pre.prevSignal)
    /\ IsNumber(LastMacd) /\ IsNumber(LastMacdSignal)
    /\ Lt(LastMacd, LastMacdSignal)

\* all three MACD values are numbers and the histogram passes the noise filter
PassesNoiseFilter ==
    /\ IsNumber(LastMacd) /\ IsNumber(LastMacdSignal) /\ IsNumber(LastHistogram)
    /\ Ge(Abs(LastHistogram), macdConfig.minHistogram)

EmitsCrossover(score, text) ==
    /\ macdLast.ret.kind = "signal"
    /\ macdLast.ret.signal.score = score
    /\ macdLast.ret.signal.conf = R(4, 5)
    /\ macdLast.ret.signal.explain = [text |-> text]

\* C15 (the claim as stated): with crossover mode on and a previous observation
\* recorded, a crossing from below emits score 1 with confidence 0.8 and a
\* bullish rationale, a crossing from above score -1 with confidence 0.8 and a
\* bearish rationale
C15_Original ==
    (MACDCalled /\ macdConfig.useCrossover) =>
        /\ CrossedUp => EmitsCrossover(One, "MACD bullish crossover detected")
        /\ CrossedDown => EmitsCrossover(Neg(One), "MACD bearish crossover detected")

\* C15 (amended): the same, provided the three MACD values are numbers and
\* |histogram| >= minHistogram; a crossing whose histogram is below the noise
\* threshold (or is NaN or absent) emits nothing
C15_CrossoverEmitsFixedSignal ==
    (MACDCalled /\ macdConfig.useCrossover) =>
        /\ (CrossedUp /\ PassesNoiseFilter) =>
               EmitsCrossover(One, "MACD bullish crossover detected")
        /\ (CrossedDown /\ PassesNoiseFilter) =>
               EmitsCrossover(Neg(One), "MACD bearish crossover detected")
        /\ ((CrossedUp \/ CrossedDown) /\ ~PassesNoiseFilter) =>
               macdLast.ret.kind = "null"

\* C15 witness: a bearish crossover was emitted
C15_Witness ==
    /\ MACDCalled
    /\ macdConfig.useCrossover
    /\ CrossedDown
    /\ EmitsCrossover(Neg(One), "MACD bearish crossover detected")

\* C16: a call suppressed by the noise filter returns null and leaves the
\* current MACD, signal and histogram as the previous values
C16_SuppressedCallUpdatesState ==
    ( /\ MACDCalled
      /\ IsNumber(LastMacd) /\ IsNumber(LastMacdSignal) /\ IsNumber(LastHistogram)
      /\ Lt(Abs(LastHistogram), macdConfig.minHistogram) ) =>
        /\ macdLast.ret.kind = "null"
        /\ macdState = [ prevMacd |-> LastMacd, prevSignal |-> LastMacdSignal,
                         prevHistogram |-> LastHistogram ]

\* C16 witness: a suppressed call replaced an older, different observation
C16_Witness ==
    /\ MACDCalled
    /\ IsNumber(LastMacd) /\ IsNumber(LastMacdSignal) /\ IsNumber(LastHistogram)
    /\ Lt(Abs(LastHistogram), macdConfig.minHistogram)
    /\ macdLast.pre.prevMacd # NullNum
    /\ macdLast.pre.prevMacd # LastMacd
    /\ macdState.prevMacd = LastMacd

\* the call took the histogram fallback and returned a signal
FallbackSignal ==
    /\ MACDCalled
    /\ PassesNoiseFilter
    /\ ~(macdConfig.useCrossover /\ (CrossedUp \/ CrossedDown))
    /\ macdLast.ret.kind = "signal"

\* clamp(-1, 1, histogram * 1000)
ClampedHistogramScore(h) ==
    LET x == Mul(h, R(1000, 1))
    IN  IF Gt(x, One) THEN One ELSE IF Lt(x, Neg(One)) THEN Neg(One) ELSE x

\* C17 (the claim as stated): in the fallback the score is
\* clamp(-1, 1, histogram * 1000) and the confidence is 0.5 with no previous
\* histogram, 0.7 when |histogram| exceeds |previous histogram|, 0.3 otherwise
C17_Original ==
    FallbackSignal =>
        LET prev == macdLast.pre.prevHistogram
            sig == macdLast.ret.signal
        IN  /\ sig.score = ClampedHistogramScore(LastHistogram)
            /\ sig.conf = IF prev = NullNum THEN R(1, 2)
                          ELSE IF Gt(Abs(LastHistogram), Abs(prev)) THEN R(7, 10)
                          ELSE R(3, 10)

\* C17 (amended): the confidence is 0.7 when the histogram moved in the
\* direction of its own sign (it rose and is positive, or fell and is not
\* positive), 0.3 otherwise; a histogram that changed sign therefore gets 0.7
\* whatever the two magnitudes
C17_FallbackScoreAndConfidence ==
    FallbackSignal =>
        LET prev == macdLast.pre.prevHistogram
            h == LastHistogram
            sig == macdLast.ret.signal
        IN  /\ sig.score = ClampedHistogramScore(h)
            /\ sig.conf = IF prev = NullNum THEN R(1, 2)
                          ELSE IF \/ (Gt(h, Zero) /\ Gt(h, prev))
                                  \/ (~Gt(h, Zero) /\ Lt(h, prev))
                               THEN R(7, 10)
                          ELSE R(3, 10)
            /\ (prev # NullNum /\ Lt(prev, Zero) /\ Gt(h, Zero)) => sig.conf = R(7, 10)
            /\ (prev # NullNum /\ Gt(prev, Zero) /\ Lt(h, Zero)) => sig.conf = R(7, 10)

\* C17 witness: the histogram changed sign and shrank in magnitude, and the
\* fallback signal carries confidence 0.7
C17_Witness ==
    /\ FallbackSignal
    /\ macdLast.pre.prevHistogram # NullNum
    /\ Lt(macdLast.pre.prevHistogram, Zero)
    /\ Gt(LastHistogram, Zero)
    /\ Lt(Abs(LastHistogram), Abs(macdLast.pre.prevHistogram))
    /\ macdLast.ret.signal.conf = R(7, 10)

----------------------------------------------------------------------------
\* AR(4) alpha (packages/plugins/dist/alpha/ar4.js)

\* arrays of 5 and of 10 elements, built element by element
Row5(F(_)) == <<F(1), F(2), F(3), F(4), F(5)>>

Row10(F(_)) == <<F(1), F(2), F(3), F(4), F(5), F(6), F(7), F(8), F(9), F(10)>>

\* fitAR4: row m of the design matrix, X[m] = [1, r(t-1), r(t-2), r(t-3), r(t-4)],
\* and its target y[m] = r(t), for t the (m+4)-th return
DesignRow(returns, m) ==
    <<One, returns[m + 3], returns[m + 2], returns[m + 1], returns[m]>>

Target(returns, m) ==
    returns[m + 4]

\* F(lo) + ... + F(hi), split in halves to keep the recursion shallow (the
\* arithmetic is exact, so the grouping of the terms does not change the sum)
RECURSIVE SumRange(_, _, _)
SumRange(F(_), lo, hi) ==
    IF lo > hi THEN Zero
    ELSE IF lo = hi THEN F(lo)
    ELSE Add(SumRange(F, lo, (lo + hi) \div 2), SumRange(F, (lo + hi) \div 2 + 1, hi))

\* let acc = 0; for (m = 1..n) acc += F(m)
Accumulate(F(_), n) ==
    Add(Zero, SumRange(F, 1, n))

\* solveOLS: XtX[i][j] accumulated over the first m rows
XtXEntry(returns, i, j, m) ==
    Accumulate(LAMBDA r : Mul(DesignRow(returns, r)[i], DesignRow(returns, r)[j]), m)

\* solveOLS: Xty[i] accumulated over the first m rows
XtyEntry(returns, i, m) ==
    Accumulate(LAMBDA r : Mul(DesignRow(returns, r)[i], Target(returns, r)), m)

Identity5 ==
    Row5(LAMBDA i : Row5(LAMBDA j : IF i = j THEN One ELSE Zero))

\* invertMatrix: the matrix with the identity appended to its rows
Augment(matrix) ==
    Row5(LAMBDA i : Row10(LAMBDA j : IF j <= 5 THEN matrix[i][j]
                                     ELSE IF j - 5 = i THEN One ELSE Zero))

\* invertMatrix, partial pivoting: the first row from i on whose entry in
\* column i has the largest magnitude (k scans the rows, maxRow is the best so far)
RECURSIVE PivotRow(_, _, _, _)
PivotRow(augmented, i, k, maxRow) ==
    IF k > 5 THEN maxRow
    ELSE PivotRow(augmented, i, k + 1,
                  IF Gt(Abs(augmented[k][i]), Abs(augmented[maxRow][i]))
                  THEN k ELSE maxRow)

SwapRows(augmented, a, b) ==
    Row5(LAMBDA k : IF k = a THEN augmented[b]
                    ELSE IF k = b THEN augmented[a]
                    ELSE augmented[k])

\* Math.abs(x) < 1e-10 for x = n/d: n * 10^10 < d, computed without forming
\* 10^10 (false for NaN and the infinities)
BelowSingularityThreshold(x) ==
    /\ ~IsNaN(x)
    /\ x[2] <= ((x[3] - 1) \div 100000) \div 100000

ScaleRow(row, pivot) ==
    Row10(LAMBDA j : Div(row[j], pivot))

EliminateRow(row, factor, pivotRow) ==
    Row10(LAMBDA j : Sub(row[j], Mul(factor, pivotRow[j])))

\* invertMatrix: forward elimination from column i on
RECURSIVE ForwardEliminate(_, _)
ForwardEliminate(augmented, i) ==
    IF i > 5 THEN [singular |-> FALSE, augmented |-> augmented]
    ELSE LET swapped == SwapRows(augmented, i, PivotRow(augmented, i, i + 1, i))
         IN  IF BelowSingularityThreshold(swapped[i][i])
             THEN [singular |-> TRUE, augmented |-> swapped]
             ELSE LET pivotRow == ScaleRow(swapped[i], swapped[i][i])
                  IN  ForwardEliminate(
                          Row5(LAMBDA k : IF k = i THEN pivotRow
                                          ELSE EliminateRow(swapped[k], swapped[k][i], pivotRow)),
                          i + 1)

\* invertMatrix(matrix): the inverse, or the identity when a pivot is below 1e-10
InvertMatrix(matrix) ==
    LET r == ForwardEliminate(Augment(matrix), 1)
    IN  IF r.singular THEN Identity5
        ELSE Row5(LAMBDA i : Row5(LAMBDA j : r.augmented[i][j + 5]))

\* beta[i] = sum over j of XtXInv[i][j] * Xty[j]
BetaEntry(XtXInv, Xty, i, j) ==
    Accumulate(LAMBDA c : Mul(XtXInv[i][c], Xty[c]), j)

\* solveOLS(X, y) for the design matrix of the returns
SolveOLS(returns) ==
    LET n == Len(returns) - 4
        XtX == Row5(LAMBDA i : Row5(LAMBDA j : XtXEntry(returns, i, j, n)))
        Xty == Row5(LAMBDA i : XtyEntry(returns, i, n))
        XtXInv == InvertMatrix(XtX)
    IN  Row5(LAMBDA i : BetaEntry(XtXInv, Xty, i, 5))

\* fitAR4: sum of the first m targets
SumTargets(returns, m) ==
    Accumulate(LAMBDA r : Target(returns, r), m)

\* fitAR4: ssTot over the first m targets
SumSquaresTotal(returns, yMean, m) ==
    Accumulate(LAMBDA r : Mul(Sub(Target(returns, r), yMean),
                              Sub(Target(returns, r), yMean)), m)

\* fitAR4: the fitted value of row m
Fitted(returns, beta, m) ==
    LET row == DesignRow(returns, m)
    IN  Add(Add(Add(Add(beta[1], Mul(beta[2], row[2])), Mul(beta[3], row[3])),
                Mul(beta[4], row[4])), Mul(beta[5], row[5]))

\* fitAR4: ssRes over the first m rows
SumSquaresResidual(returns, beta, m) ==
    Accumulate(LAMBDA r : Mul(Sub(Target(returns, r), Fitted(returns, beta, r)),
                              Sub(Target(returns, r), Fitted(returns, beta, r))), m)

\* the fit returned for fewer than 10 returns
ZeroFit ==
    [ beta0 |-> Zero, beta1 |-> Zero, beta2 |-> Zero, beta3 |-> Zero,
      beta4 |-> Zero, rSquared |-> Zero ]

\* fitAR4(returns)
FitAR4(returns) ==
    IF Len(returns) < 10 THEN ZeroFit
    ELSE LET n == Len(returns) - 4
         IN  LET beta == SolveOLS(returns)
                 yMean == Div(SumTargets(returns, n), R(n, 1))
             IN  LET ssTot == SumSquaresTotal(returns, yMean, n)
                     ssRes == SumSquaresResidual(returns, beta, n)
                 IN  LET rSquared == IF EqNum(ssTot, Zero) THEN Zero
                                     ELSE Sub(One, Div(ssRes, ssTot))
                     IN  [ beta0 |-> beta[1], beta1 |-> beta[2], beta2 |-> beta[3],
                           beta3 |-> beta[4], beta4 |-> beta[5],
                           rSquared |-> Max(Zero, Min(One, rSquared)) ]

\* predictAR4(coefficients, recentReturns)
PredictAR4(coefficients, recentReturns) ==
    Add(Add(Add(Add(coefficients.beta0,
                    Mul(coefficients.beta1, recentReturns[1])),
                Mul(coefficients.beta2, recentReturns[2])),
            Mul(coefficients.beta3, recentReturns[3])),
        Mul(coefficients.beta4, recentReturns[4]))

\* x.toFixed(3)
ToFixed3(x) ==
    IF IsNaN(x) THEN [neg |-> FALSE, millis |-> 0, special |-> "NaN"]
    ELSE IF IsInf(x) THEN [neg |-> Lt(x, Zero), millis |-> 0, special |-> "Infinity"]
    ELSE [neg |-> Lt(x, Zero),
          millis |-> (2 * x[2] * 1000 + x[3]) \div (2 * x[3]),
          special |-> ""]

DefaultFitWindow == 100

AR4DefaultHorizonSec == 300

DefaultMinRSquared == R(1, 10)

\* the number of returns after which the model is fitted again
RefitEvery == 20

\* AR4ConfigSchema.parse(raw) does not throw (horizonSec is left to its default)
AR4ConfigSchemaOk(raw) ==
    /\ \/ IsUndefined(raw.fitWindow)
       \/ /\ IsNumber(raw.fitWindow)
          /\ raw.fitWindow[3] = 1
          /\ Gt(raw.fitWindow, Zero)
    /\ \/ IsUndefined(raw.minRSquared)
       \/ InRange(raw.minRSquared, Zero, One)

AR4ConfigWithDefaults(raw) ==
    [ fitWindow   |-> IF IsUndefined(raw.fitWindow) THEN DefaultFitWindow
                      ELSE raw.fitWindow[2],
      horizonSec  |-> AR4DefaultHorizonSec,
      minRSquared |-> WithDefault(raw.minRSquared, DefaultMinRSquared) ]

\* this.coefficients = null
NullCoefficients == [none |-> TRUE]

InitialAR4State ==
    [coefficients |-> NullCoefficients, returnHistory |-> <<>>]

\* mutant: at capacity the newest return is dropped and the oldest kept
PushCapped_DropsNewest(returnHistory, currentReturn, fitWindow) ==
    IF Len(returnHistory) + 1 > fitWindow
    THEN returnHistory
    ELSE Append(returnHistory, currentReturn)

\* returnHistory.push(currentReturn), then shift() when longer than fitWindow
PushCapped(returnHistory, currentReturn, fitWindow) ==
    IF Len(returnHistory) + 1 > fitWindow
    THEN Tail(Append(returnHistory, currentReturn))
    ELSE Append(returnHistory, currentReturn)

\* mutant: the model is fitted again every 10 returns
RefitDue_Every10(returnHistory, coefficients) ==
    Len(returnHistory) % 10 = 0 \/ coefficients = NullCoefficients

\* the condition of the refit (line 226)
RefitDue(returnHistory, coefficients) ==
    Len(returnHistory) % RefitEvery = 0 \/ coefficients = NullCoefficients

\* mutant: the quality threshold is not applied
RSquaredOk_Always(coefficients, cfg) ==
    TRUE

\* the quality threshold passes (line 234 does not return)
RSquaredOk(coefficients, cfg) ==
    ~Lt(coefficients.rSquared, cfg.minRSquared)

\* lines 229-264: the outcome of generateSignal once history and coefficients
\* are updated
AR4Emit(cfg, returnHistory, coefficients, features) ==
    IF Len(returnHistory) < 4 \/ coefficients = NullCoefficients THEN RetNull
    ELSE IF ~RSquaredOk(coefficients, cfg) THEN RetNull
    ELSE LET len == Len(returnHistory)
         IN  LET predictedReturn ==
                     PredictAR4(coefficients,
                                << returnHistory[len], returnHistory[len - 1],
                                   returnHistory[len - 2], returnHistory[len - 3] >>)
             IN  LET signal ==
                         [ id |-> "ar4-" \o ToString(features.t), t |-> features.t,
                           symbol |-> features.symbol, exch |-> features.exch,
                           tf |-> features.tf,
                           score |-> Max(Neg(One), Min(One, Mul(predictedReturn, R(100, 1)))),
                           conf |-> coefficients.rSquared,
                           horizon_sec |-> cfg.horizonSec,
                           explain |-> [ text |-> "AR(4) predicted return",
                                         value |-> ToFixed6(predictedReturn),
                                         rSquared |-> ToFixed3(coefficients.rSquared) ] ]
                 IN  IF AlphaSignalSchemaOk(signal) THEN RetSignal(signal)
                     ELSE Throw("ZodError")

\* AR4Alpha.generateSignal(features): the state left, the outcome and whether
\* the model was fitted
AR4GenerateSignal(cfg, st, features) ==
    LET currentReturn == features.vals.return_1
    IN  IF MissingOrNaN(currentReturn)
        THEN [state |-> st, ret |-> RetNull, refit |-> FALSE]
        ELSE LET returnHistory == PushCapped(st.returnHistory, currentReturn, cfg.fitWindow)
             IN  LET refit == RefitDue(returnHistory, st.coefficients)
                 IN  LET coefficients == IF refit THEN FitAR4(returnHistory)
                                         ELSE st.coefficients
                     IN  [ state |-> [coefficients |-> coefficients,
                                      returnHistory |-> returnHistory],
                           ret |-> AR4Emit(cfg, returnHistory, coefficients, features),
                           refit |-> refit ]

\* the largest number of numeric returns handed to one AR4Alpha
MaxFed == 41

\* configurations handed to AR4Alpha: a window below 4, one that is a
\* multiple of 20, one that is not, the default, and one the schema rejects
FitWindowChoices == {Undefined, R(3, 1), R(20, 1), R(25, 1), R(5, 2)}

MinRSquaredChoices == {Undefined, Zero, R(9, 10)}

RawAR4Configs ==
    [fitWindow : FitWindowChoices, minRSquared : MinRSquaredChoices]

\* the return streams: each repeats one of these patterns (whole numbers keep
\* the exact arithmetic of the fit small); a constant stream makes the normal
\* equations singular, a period of 5 is fitted exactly, a period of 6 partly
ReturnPatterns == {<<1>>, <<1, 0, 0, 0, 0>>, <<1, 0, 0, 0, 0, 0>>}

\* the pattern of the one stream that opens with a return that is not finite
\* (return_1 is a plain number of the vector: nothing keeps it finite)
NonFinitePattern == <<1, 0, 0, 0, 0>>

ReturnValues == {R(0, 1), R(1, 1), Infinity}

FollowsPattern(returns, p, from) ==
    \A k \in from..Len(returns) : returns[k] = R(p[((k - 1) % Len(p)) + 1], 1)

IsStreamPrefix(returns) ==
    \/ \E p \in ReturnPatterns : FollowsPattern(returns, p, 1)
    \/ /\ Len(returns) >= 1
       /\ returns[1] = Infinity
       /\ FollowsPattern(returns, NonFinitePattern, 2)

AR4Features(return_1) ==
    [ t |-> 1000, symbol |-> "BTCUSDT", exch |-> "BINANCE", tf |-> "1m",
      vals |-> [return_1 |-> return_1] ]

InitAR4 ==
    /\ PolicyIdle
    /\ RiskIdle
    /\ MacdIdle
    /\ Ar4Idle
    /\ RestIdle

\* new AR4Alpha(AR4ConfigSchema.parse(raw))
AR4Construct(raw) ==
    /\ ar4Config = [none |-> TRUE]
    /\ IF AR4ConfigSchemaOk(raw)
       THEN /\ ar4Config' = AR4ConfigWithDefaults(raw)
            /\ ar4State' = InitialAR4State
            /\ ar4Last' = [op |-> "constructor", raw |-> raw, ret |-> RetNull]
       ELSE /\ ar4Last' = [op |-> "constructor", raw |-> raw, ret |-> Throw("ZodError")]
            /\ UNCHANGED <<ar4Config, ar4State>>
    /\ UNCHANGED <<ar4Fed, ar4Fits, policyVars, riskVars, macdVars, restVars>>

\* alpha.generateSignal(features) with a numeric return_1, the next of a stream
AR4GenerateSignalCall(return_1) ==
    /\ ar4Config # [none |-> TRUE]
    /\ Len(ar4Fed) < MaxFed
    /\ IsStreamPrefix(Append(ar4Fed, return_1))
    /\ \E r \in {AR4GenerateSignal(ar4Config, ar4State, AR4Features(return_1))} :
           /\ ar4State' = r.state
           /\ ar4Last' = [op |-> "generateSignal", features |-> AR4Features(return_1),
                          pre |-> ar4State, ret |-> r.ret, refit |-> r.refit]
           /\ ar4Fed' = Append(ar4Fed, return_1)
           /\ ar4Fits' = IF r.refit THEN Append(ar4Fits, Len(ar4Fed) + 1) ELSE ar4Fits
    /\ UNCHANGED <<ar4Config, policyVars, riskVars, macdVars, restVars>>

\* alpha.generateSignal(features) with return_1 absent or NaN
AR4GenerateSignalNoReturn(return_1) ==
    /\ ar4Config # [none |-> TRUE]
    /\ \E r \in {AR4GenerateSignal(ar4Config, ar4State, AR4Features(return_1))} :
           /\ ar4State' = r.state
           /\ ar4Last' = [op |-> "generateSignal", features |-> AR4Features(return_1),
                          pre |-> ar4State, ret |-> r.ret, refit |-> r.refit]
    /\ UNCHANGED <<ar4Config, ar4Fed, ar4Fits, policyVars, riskVars, macdVars, restVars>>

\* mutant: reset() empties the history and keeps the fitted coefficients
AR4Reset_KeepsCoefficients ==
    /\ ar4Config # [none |-> TRUE]
    /\ ar4State' = [coefficients |-> ar4State.coefficients, returnHistory |-> <<>>]
    /\ ar4Last' = [op |-> "reset", pre |-> ar4State]
    /\ ar4Fed' = <<>>
    /\ ar4Fits' = <<>>
    /\ UNCHANGED <<ar4Config, policyVars, riskVars, macdVars, restVars>>

\* alpha.reset()
AR4Reset ==
    /\ ar4Config # [none |-> TRUE]
    /\ ar4State' = InitialAR4State
    /\ ar4Last' = [op |-> "reset", pre |-> ar4State]
    /\ ar4Fed' = <<>>
    /\ ar4Fits' = <<>>
    /\ UNCHANGED <<ar4Config, policyVars, riskVars, macdVars, restVars>>

NextAR4 ==
    \/ \E raw \in RawAR4Configs : AR4Construct(raw)
    \/ \E return_1 \in ReturnValues : AR4GenerateSignalCall(return_1)
    \/ \E return_1 \in {Undefined, NaN} : AR4GenerateSignalNoReturn(return_1)
    \/ AR4Reset

SpecAR4 == InitAR4 /\ [][NextAR4]_vars

\* C18 (the claim as stated): after the first fit the model is fitted again
\* once per 20 numeric returns, for every fitWindow and also at capacity:
\* consecutive refits are 20 numeric returns apart, fewer than 20 numeric
\* returns have arrived since the latest fit, and a call that does not refit
\* leaves the coefficients unchanged.  It fails once the history is at
\* capacity: its length then stays at fitWindow, so the model is fitted on
\* every call when fitWindow is a multiple of 20 and never again otherwise.
C18_RefitsEvery20Returns ==
    /\ \A i \in 2..(Len(ar4Fits) - 1) : ar4Fits[i + 1] - ar4Fits[i] = RefitEvery
    /\ Len(ar4Fits) >= 1 => Len(ar4Fed) - ar4Fits[Len(ar4Fits)] < RefitEvery
    /\ (ar4Last.op = "generateSignal" /\ ~ar4Last.refit) =>
           ar4State.coefficients = ar4Last.pre.coefficients

\* C19: the history holds at most fitWindow values and equals the most recent
\* min(n, fitWindow) of the n numeric returns handed so far, in arrival order
C19_HistoryIsCappedFifo ==
    ar4Config # [none |-> TRUE] =>
        LET n == Len(ar4Fed)
            k == IF n < ar4Config.fitWindow THEN n ELSE ar4Config.fitWindow
        IN  /\ Len(ar4State.returnHistory) <= ar4Config.fitWindow
            /\ ar4State.returnHistory = SubSeq(ar4Fed, n - k + 1, n)

\* C19 witness: more returns than fitWindow were handed and the oldest one,
\* different from the oldest one kept, is gone
C19_Witness ==
    /\ ar4Config # [none |-> TRUE]
    /\ Len(ar4Fed) > ar4Config.fitWindow
    /\ Len(ar4State.returnHistory) = ar4Config.fitWindow
    /\ ar4State.returnHistory[1] # ar4Fed[1]
    /\ ar4State.returnHistory[Len(ar4State.returnHistory)] = ar4Fed[Len(ar4Fed)]

\* after the call the history holds at least 4 returns, a fitted model exists
\* and its R-squared is at least minRSquared
Emittable ==
    /\ Len(ar4State.returnHistory) >= 4
    /\ ar4State.coefficients # NullCoefficients
    /\ Ge(ar4State.coefficients.rSquared, ar4Config.minRSquared)

\* C20 (the claim as stated): generateSignal returns a signal only when, the
\* current return appended, the history holds at least 4 returns, a fitted
\* model exists and its R-squared is >= minRSquared; in every other case it
\* returns null.  It fails when a return of the fitted window is not finite:
\* the R-squared is then NaN, "NaN < minRSquared" is false, and the call raises
\* on the NaN score instead of returning null.
C20_SignalOnlyWhenFitIsGoodEnough ==
    ar4Last.op = "generateSignal" =>
        /\ ar4Last.ret.kind = "signal" => Emittable
        /\ ~Emittable => ar4Last.ret.kind = "null"

\* x lies in the closed interval [lo, hi]
Within(x, lo, hi) ==
    Ge(x, lo) /\ Le(x, hi)

\* the prediction the model of the state makes from its 4 latest returns
LastPrediction ==
    LET h == ar4State.returnHistory
    IN  PredictAR4(ar4State.coefficients,
                   <<h[Len(h)], h[Len(h) - 1], h[Len(h) - 2], h[Len(h) - 3]>>)

\* x * 100 clamped into [-1, 1], for a number x
ClampedTimes100(x) ==
    LET y == Mul(x, R(100, 1))
    IN  IF Lt(y, Neg(One)) THEN Neg(One) ELSE IF Gt(y, One) THEN One ELSE y

\* C21 (the claim as stated, for AR4Alpha): an emitted signal has its score in
\* [-1, 1] and its confidence in [0, 1], the score is the predicted return
\* times 100 clamped into [-1, 1], the confidence is the R-squared of the
\* fitted model, and the R-squared of every fitted model lies in [0, 1].  The
\* last part fails: Math.max(0, Math.min(1, NaN)) is NaN, so a window holding a
\* return that is not finite is fitted with R-squared NaN.
C21_ScoreAndConfidenceWithinIntervals ==
    /\ (ar4Last.op = "generateSignal" /\ ar4Last.ret.kind = "signal") =>
           /\ Within(ar4Last.ret.signal.score, Neg(One), One)
           /\ Within(ar4Last.ret.signal.conf, Zero, One)
           /\ EqNum(ar4Last.ret.signal.score, ClampedTimes100(LastPrediction))
           /\ ar4Last.ret.signal.conf = ar4State.coefficients.rSquared
    /\ (ar4Config # [none |-> TRUE] /\ ar4State.coefficients # NullCoefficients) =>
           Within(ar4State.coefficients.rSquared, Zero, One)

\* the part of C21 about emitted signals alone
C21_EmittedSignalsWithinIntervals ==
    (ar4Last.op = "generateSignal" /\ ar4Last.ret.kind = "signal") =>
        /\ Within(ar4Last.ret.signal.score, Neg(One), One)
        /\ Within(ar4Last.ret.signal.conf, Zero, One)
        /\ EqNum(ar4Last.ret.signal.score, ClampedTimes100(LastPrediction))
        /\ ar4Last.ret.signal.conf = ar4State.coefficients.rSquared

\* ------------------------------------------------------------------------
\* Indicator library (rolling.js) and the pure functions of the feature
\* factory.  Periods and lengths are plain integers.
\* ------------------------------------------------------------------------

RECURSIVE ISqrtBetween(_, _, _)
ISqrtBetween(n, lo, hi) ==
    IF lo = hi THEN lo
    ELSE LET mid == (lo + hi + 1) \div 2
         IN  IF mid * mid <= n THEN ISqrtBetween(n, mid, hi)
             ELSE ISqrtBetween(n, lo, mid - 1)

\* the integer part of the square root of a natural number
ISqrt(n) ==
    ISqrtBetween(n, 0, IF n < 46340 THEN n ELSE 46340)

\* Math.sqrt(x): exact when the root is rational, rounded down to hundredths
\* of 1/d otherwise (Math.sqrt rounds to the nearest double)
Sqrt(x) ==
    IF IsNaN(x) THEN NaN
    ELSE IF x[2] = 0 THEN x
    ELSE IF x[1] = -1 THEN NaN
    ELSE IF IsInf(x) THEN x
    ELSE LET p == x[2] * x[3]
         IN  LET r == ISqrt(p)
             IN  IF r * r = p THEN Norm(1, r, x[3])
                 ELSE Norm(1, ISqrt(p * 10000), x[3] * 100)

\* Math.log(x): 0 for 1, -Infinity for 0, NaN below 0; the logarithm of any
\* other n/d is kept as the 4-tuple <<its sign, n, d, 1>>, a number that is
\* neither NaN nor undefined
Ln(x) ==
    IF IsNaN(x) THEN NaN
    ELSE IF x[2] = 0 THEN Neg(Infinity)
    ELSE IF x[1] = -1 THEN NaN
    ELSE IF IsInf(x) THEN x
    ELSE IF x = One THEN Zero
    ELSE <<(IF x[2] > x[3] THEN 1 ELSE -1), x[2], x[3], 1>>

\* values.slice(-period) for a positive period
LastN(values, period) ==
    IF period >= Len(values) THEN values
    ELSE SubSeq(values, Len(values) - period + 1, Len(values))

\* values.reduce((acc, val) => acc + val, 0)
SumOf(values) ==
    Accumulate(LAMBDA i : values[i], Len(values))

\* sma(values, period)
Sma_NoPeriodCheck(values, period) ==
    IF Len(values) < period THEN NaN
    ELSE Div(SumOf(LastN(values, IF period > 0 THEN period ELSE Len(values))),
             R(period, 1))

Sma(values, period) ==
    IF Len(values) < period \/ period <= 0 THEN NaN
    ELSE Div(SumOf(LastN(values, period)), R(period, 1))

\* ema(values, period, prevEma); prevEma is Undefined when not given
Ema(values, period, prevEma) ==
    IF Len(values) = 0 \/ period <= 0 THEN NaN
    ELSE IF IsUndefined(prevEma) \/ IsNaN(prevEma)
         THEN IF Len(values) < period THEN NaN ELSE Sma(values, period)
         ELSE LET multiplier == Div(R(2, 1), R(period + 1, 1))
                  latestValue == values[Len(values)]
              IN  Add(Mul(Sub(latestValue, prevEma), multiplier), prevEma)

\* wma(values, period)
Wma(values, period) ==
    IF Len(values) < period \/ period <= 0 THEN NaN
    ELSE LET window == LastN(values, period)
         IN  LET weightedSum ==
                     Accumulate(LAMBDA i : Mul(window[i], R(i, 1)), Len(window))
                 weightSum == Accumulate(LAMBDA i : R(i, 1), Len(window))
             IN  Div(weightedSum, weightSum)

\* variance(values, period): the sample variance of the last period values
Variance(values, period) ==
    IF Len(values) < period \/ period <= 1 THEN NaN
    ELSE LET window == LastN(values, period)
         IN  LET mean == Sma(window, period)
             IN  LET sumSquaredDiffs ==
                         Accumulate(LAMBDA i : Mul(Sub(window[i], mean),
                                                   Sub(window[i], mean)),
                                    Len(window))
                 IN  Div(sumSquaredDiffs, R(period - 1, 1))

\* stddev(values, period)
Stddev(values, period) ==
    LET v == Variance(values, period)
    IN  IF IsNaN(v) THEN NaN ELSE Sqrt(v)

\* Math.min of three lengths
MinLen(a, b, c) ==
    LET ab == IF Len(a) < Len(b) THEN Len(a) ELSE Len(b)
    IN  IF ab < Len(c) THEN ab ELSE Len(c)

\* atr: the true range of bar i
TrueRange(highs, lows, closes, i) ==
    IF i = 1 THEN Sub(highs[i], lows[i])
    ELSE Max(Max(Sub(highs[i], lows[i]), Abs(Sub(highs[i], closes[i - 1]))),
             Abs(Sub(lows[i], closes[i - 1])))

\* atr(highs, lows, closes, period)
Atr(highs, lows, closes, period) ==
    LET len == MinLen(highs, lows, closes)
    IN  IF len < period \/ period <= 0 THEN NaN
        ELSE Sma([i \in 1..len |-> TrueRange(highs, lows, closes, i)], period)

\* rsi(values, period)
Rsi_NoFlatCase(values, period) ==
    IF Len(values) < period + 1 \/ period <= 0 THEN NaN
    ELSE LET changes == [i \in 1..(Len(values) - 1) |-> Sub(values[i + 1], values[i])]
         IN  LET window == LastN(changes, period)
             IN  LET gains == Accumulate(LAMBDA i : IF Gt(window[i], Zero) THEN window[i]
                                                    ELSE Zero, Len(window))
                     losses == Accumulate(LAMBDA i : IF Gt(window[i], Zero) THEN Zero
                                                     ELSE Abs(window[i]), Len(window))
                 IN  LET avgGain == Div(gains, R(period, 1))
                         avgLoss == Div(losses, R(period, 1))
                     IN  IF EqNum(avgLoss, Zero) THEN R(100, 1)
                         ELSE Sub(R(100, 1),
                                  Div(R(100, 1), Add(One, Div(avgGain, avgLoss))))

Rsi(values, period) ==
    IF Len(values) < period + 1 \/ period <= 0 THEN NaN
    ELSE LET changes == [i \in 1..(Len(values) - 1) |-> Sub(values[i + 1], values[i])]
         IN  LET window == LastN(changes, period)
             IN  LET gains == Accumulate(LAMBDA i : IF Gt(window[i], Zero) THEN window[i]
                                                    ELSE Zero, Len(window))
                     losses == Accumulate(LAMBDA i : IF Gt(window[i], Zero) THEN Zero
                                                     ELSE Abs(window[i]), Len(window))
                 IN  LET avgGain == Div(gains, R(period, 1))
                         avgLoss == Div(losses, R(period, 1))
                     IN  IF EqNum(avgLoss, Zero)
                         THEN (IF EqNum(avgGain, Zero) THEN R(50, 1) ELSE R(100, 1))
                         ELSE Sub(R(100, 1),
                                  Div(R(100, 1), Add(One, Div(avgGain, avgLoss))))

\* macd: the differences fEma - sEma over the prefixes of at least slowPeriod
\* values whose two averages are numbers
RECURSIVE MacdHistory(_, _, _, _)
MacdHistory(values, fastPeriod, slowPeriod, i) ==
    IF i > Len(values) THEN <<>>
    ELSE LET slice == SubSeq(values, 1, i)
         IN  LET fEma == Ema(slice, fastPeriod, Undefined)
                 sEma == Ema(slice, slowPeriod, Undefined)
             IN  (IF ~IsNaN(fEma) /\ ~IsNaN(sEma) THEN <<Sub(fEma, sEma)>> ELSE <<>>)
                     \o MacdHistory(values, fastPeriod, slowPeriod, i + 1)

MacdAllNaN == [macd |-> NaN, signal |-> NaN, histogram |-> NaN]

\* macd(values, fastPeriod, slowPeriod, signalPeriod)
Macd(values, fastPeriod, slowPeriod, signalPeriod) ==
    IF Len(values) < slowPeriod THEN MacdAllNaN
    ELSE LET fastEma == Ema(values, fastPeriod, Undefined)
             slowEma == Ema(values, slowPeriod, Undefined)
         IN  IF IsNaN(fastEma) \/ IsNaN(slowEma) THEN MacdAllNaN
             ELSE LET macdLine == Sub(fastEma, slowEma)
                      macdHistory ==
                          MacdHistory(values, fastPeriod, slowPeriod, slowPeriod)
                  IN  IF Len(macdHistory) >= signalPeriod
                      THEN LET signal == Ema(macdHistory, signalPeriod, Undefined)
                           IN  [ macd |-> macdLine, signal |-> signal,
                                 histogram |-> IF ~IsNaN(signal) THEN Sub(macdLine, signal)
                                               ELSE NaN ]
                      ELSE [macd |-> macdLine, signal |-> NaN, histogram |-> NaN]

\* percentChange(current, previous)
PercentChange_NonPositive(current, previous) ==
    IF Le(previous, Zero) THEN NaN
    ELSE Mul(Div(Sub(current, previous), previous), R(100, 1))

PercentChange(current, previous) ==
    IF EqNum(previous, Zero) THEN NaN
    ELSE Mul(Div(Sub(current, previous), previous), R(100, 1))

\* simpleReturn(current, previous)
SimpleReturn(current, previous) ==
    IF EqNum(previous, Zero) THEN NaN
    ELSE Div(Sub(current, previous), previous)

\* logReturn(current, previous)
LogReturn(current, previous) ==
    IF Le(current, Zero) \/ Le(previous, Zero) THEN NaN
    ELSE Ln(Div(current, previous))

\* classifyRegime(trendStrength, volatility)
ClassifyRegime_AtThreshold(trendStrength, volatility) ==
    IF Ge(volatility, R(2, 1)) THEN "volatile"
    ELSE IF Ge(Abs(trendStrength), R(6, 10))
         THEN (IF Gt(trendStrength, Zero) THEN "trending_up" ELSE "trending_down")
         ELSE "ranging"

ClassifyRegime(trendStrength, volatility) ==
    IF Gt(volatility, R(2, 1)) THEN "volatile"
    ELSE IF Gt(Abs(trendStrength), R(6, 10))
         THEN (IF Gt(trendStrength, Zero) THEN "trending_up" ELSE "trending_down")
         ELSE "ranging"

\* the longest sequence handed to an indicator
MaxRollLen == 4

\* the values of the sequences, and the periods: below, at and above the
\* lengths, zero and negative
RollPrices == {R(1, 1), R(2, 1), R(3, 1)}

RollSeqs == UNION {[1..n -> RollPrices] : n \in 0..MaxRollLen}

RollPeriods == -1..3

\* current and previous values of the return functions
ReturnArgs == {R(-2, 1), Zero, R(1, 1), R(2, 1)}

\* trend strengths and volatility ratios around the two thresholds
TrendChoices ==
    {R(-1, 1), R(-7, 10), R(-6, 10), R(-1, 2), Zero, R(1, 2), R(6, 10), R(7, 10),
     R(1, 1), NaN}

VolatilityRatioChoices == {Zero, R(1, 1), R(2, 1), R(21, 10), R(3, 1), NaN}

IndicatorNames == {"sma", "ema", "wma", "variance", "stddev", "rsi"}

\* the indicator of one sequence and one period
Indicator(name, values, period) ==
    CASE name = "sma" -> Sma(values, period)
      [] name = "ema" -> Ema(values, period, Undefined)
      [] name = "wma" -> Wma(values, period)
      [] name = "variance" -> Variance(values, period)
      [] name = "stddev" -> Stddev(values, period)
      [] name = "rsi" -> Rsi(values, period)

InitIndicators ==
    /\ PolicyIdle
    /\ RiskIdle
    /\ MacdIdle
    /\ Ar4Idle
    /\ RestIdle

\* Each behaviour makes one call of one pure function on arguments drawn from
\* the sets above.

\* sma / ema / wma / variance / stddev / rsi (values, period)
IndicatorCall(name, values, period) ==
    /\ rollLast.op = "none"
    /\ rollLast' = [ op |-> name, values |-> values, period |-> period,
                     ret |-> Indicator(name, values, period) ]
    /\ UNCHANGED besidesRollVars

\* ema(values, period, prevEma) with a previous value
EmaNextCall(values, period, prevEma) ==
    /\ rollLast.op = "none"
    /\ rollLast' = [ op |-> "emaNext", values |-> values, period |-> period,
                     prevEma |-> prevEma, ret |-> Ema(values, period, prevEma) ]
    /\ UNCHANGED besidesRollVars

\* atr(highs, lows, closes, period): highs one above and lows one below the
\* closes, the lows given with dropped fewer bars
AtrCall(closes, dropped, period) ==
    /\ rollLast.op = "none"
    /\ Len(closes) >= dropped
    /\ LET highs == [i \in 1..Len(closes) |-> Add(closes[i], One)]
           lows == [i \in 1..(Len(closes) - dropped) |-> Sub(closes[i], R(1, 2))]
       IN  rollLast' = [ op |-> "atr", highs |-> highs, lows |-> lows,
                         values |-> closes, period |-> period,
                         ret |-> Atr(highs, lows, closes, period) ]
    /\ UNCHANGED besidesRollVars

\* macd(values, fastPeriod, slowPeriod, signalPeriod)
MacdCall(values, fastPeriod, slowPeriod, signalPeriod) ==
    /\ rollLast.op = "none"
    /\ rollLast' = [ op |-> "macd", values |-> values, fastPeriod |-> fastPeriod,
                     slowPeriod |-> slowPeriod, signalPeriod |-> signalPeriod,
                     ret |-> Macd(values, fastPeriod, slowPeriod, signalPeriod) ]
    /\ UNCHANGED besidesRollVars

\* percentChange / simpleReturn / logReturn (current, previous)
ReturnCall(name, current, previous) ==
    /\ rollLast.op = "none"
    /\ rollLast' = [ op |-> name, current |-> current, previous |-> previous,
                     ret |-> CASE name = "percentChange" -> PercentChange(current, previous)
                               [] name = "simpleReturn" -> SimpleReturn(current, previous)
                               [] name = "logReturn" -> LogReturn(current, previous) ]
    /\ UNCHANGED besidesRollVars

\* classifyRegime(trendStrength, volatility)
ClassifyRegimeCall(trendStrength, volatility) ==
    /\ rollLast.op = "none"
    /\ rollLast' = [ op |-> "classifyRegime", trendStrength |-> trendStrength,
                     volatility |-> volatility,
                     ret |-> ClassifyRegime(trendStrength, volatility) ]
    /\ UNCHANGED besidesRollVars

NextIndicators ==
    \/ \E name \in IndicatorNames, values \in RollSeqs, period \in RollPeriods :
           IndicatorCall(name, values, period)
    \/ \E values \in RollSeqs, period \in RollPeriods, prevEma \in {R(2, 1), NaN} :
           EmaNextCall(values, period, prevEma)
    \/ \E closes \in RollSeqs, dropped \in 0..1, period \in RollPeriods :
           AtrCall(closes, dropped, period)
    \/ \E values \in RollSeqs, fastPeriod \in 0..2, slowPeriod \in 0..3, signalPeriod \in 0..2 :
           MacdCall(values, fastPeriod, slowPeriod, signalPeriod)
    \/ \E name \in {"percentChange", "simpleReturn", "logReturn"},
          current \in ReturnArgs, previous \in ReturnArgs :
           ReturnCall(name, current, previous)
    \/ \E trendStrength \in TrendChoices, volatility \in VolatilityRatioChoices :
           ClassifyRegimeCall(trendStrength, volatility)

SpecIndicators == InitIndicators /\ [][NextIndicators]_vars

\* C25: classifyRegime always returns one of the four regimes; it returns
\* volatile exactly when the volatility ratio is > 2.0, and otherwise
\* trending_up exactly when trendStrength > 0.6, trending_down exactly when
\* trendStrength < -0.6, ranging in every other case: the values 2.0 and 0.6
\* themselves fall to the lower branch and volatility wins over any trend
C25_RegimePrecedence ==
    rollLast.op = "classifyRegime" =>
        LET volatile == Lt(R(2, 1), rollLast.volatility)
            up == Lt(R(6, 10), rollLast.trendStrength)
            down == Lt(rollLast.trendStrength, R(-6, 10))
        IN  /\ rollLast.ret \in {"volatile", "trending_up", "trending_down", "ranging"}
            /\ rollLast.ret = "volatile" <=> volatile
            /\ rollLast.ret = "trending_up" <=> (~volatile /\ up)
            /\ rollLast.ret = "trending_down" <=> (~volatile /\ down)
            /\ rollLast.ret = "ranging" <=> (~volatile /\ ~up /\ ~down)

\* C25 witness: a ratio of exactly 2.0 did not make the regime volatile, and
\* the trend above 0.6 decided
C25_Witness ==
    /\ rollLast.op = "classifyRegime"
    /\ rollLast.volatility = R(2, 1)
    /\ rollLast.trendStrength = R(7, 10)
    /\ rollLast.ret = "trending_up"

\* C26 (the claim as stated): percentChange and simpleReturn return NaN
\* whenever the previous value is <= 0, logReturn whenever the previous or the
\* current value is <= 0
C26_Original ==
    /\ (rollLast.op \in {"percentChange", "simpleReturn"}
            /\ Le(rollLast.previous, Zero)) => IsNaN(rollLast.ret)
    /\ (rollLast.op = "logReturn"
            /\ (Le(rollLast.previous, Zero) \/ Le(rollLast.current, Zero))) =>
           IsNaN(rollLast.ret)

\* C26 (amended): percentChange and simpleReturn return NaN exactly when the
\* previous value is zero, and for a negative previous value the ratio-based
\* value like for a positive one; logReturn returns NaN exactly when the
\* previous or the current value is <= 0
C26_ReturnsUndefinedOnlyAtZero ==
    /\ rollLast.op \in {"percentChange", "simpleReturn"} =>
           /\ IsNaN(rollLast.ret) <=> rollLast.previous[2] = 0
           /\ ~IsNaN(rollLast.ret) =>
                  EqNum(Mul(rollLast.ret, rollLast.previous),
                        Mul(Sub(rollLast.current, rollLast.previous),
                            IF rollLast.op = "percentChange" THEN R(100, 1) ELSE One))
    /\ rollLast.op = "logReturn" =>
           /\ IsNaN(rollLast.ret) <=>
                  (Le(rollLast.previous, Zero) \/ Le(rollLast.current, Zero))
           /\ ~IsNaN(rollLast.ret) =>
                  rollLast.ret = Ln(Div(rollLast.current, rollLast.previous))

\* C26 witness: a negative previous value gave a number
C26_Witness ==
    /\ rollLast.op = "percentChange"
    /\ rollLast.previous = R(-2, 1)
    /\ rollLast.current = R(1, 1)
    /\ rollLast.ret = R(-150, 1)

\* C27: an indicator given fewer values than it needs, or a period that is not
\* positive, returns NaN (macd: NaN in its three fields when fewer than
\* slowPeriod values are given or the fast or the slow period is not positive,
\* NaN signal and histogram when the signal period is not positive); the
\* sequences handed are those the caller still holds
C27_InsufficientDataIsNaN ==
    /\ (rollLast.op \in {"sma", "ema", "wma", "variance", "stddev"}
            /\ (Len(rollLast.values) < rollLast.period \/ rollLast.period <= 0)) =>
           IsNaN(rollLast.ret)
    /\ (rollLast.op = "rsi"
            /\ (Len(rollLast.values) < rollLast.period + 1 \/ rollLast.period <= 0)) =>
           IsNaN(rollLast.ret)
    /\ (rollLast.op = "atr"
            /\ (\/ Len(rollLast.highs) < rollLast.period
                \/ Len(rollLast.lows) < rollLast.period
                \/ Len(rollLast.values) < rollLast.period
                \/ rollLast.period <= 0)) =>
           IsNaN(rollLast.ret)
    /\ (rollLast.op = "macd"
            /\ (\/ Len(rollLast.values) < rollLast.slowPeriod
                \/ rollLast.slowPeriod <= 0
                \/ rollLast.fastPeriod <= 0)) =>
           /\ IsNaN(rollLast.ret.macd)
           /\ IsNaN(rollLast.ret.signal)
           /\ IsNaN(rollLast.ret.histogram)
    /\ (rollLast.op = "macd" /\ rollLast.signalPeriod <= 0) =>
           /\ IsNaN(rollLast.ret.signal)
           /\ IsNaN(rollLast.ret.histogram)

\* C27 witness: sma of three values over a period of zero returned NaN
C27_Witness ==
    /\ rollLast.op = "sma"
    /\ Len(rollLast.values) = 3
    /\ rollLast.period = 0
    /\ IsNaN(rollLast.ret)

\* the last period differences of consecutive values
LastDeltas ==
    LET v == rollLast.values
    IN  [i \in 1..rollLast.period |->
            Sub(v[Len(v) - rollLast.period + i], v[Len(v) - rollLast.period + i - 1])]

\* C28: rsi is NaN when fewer than period + 1 values are given; otherwise (for
\* a positive period) it lies in [0, 100], is 100 when the last period deltas
\* hold a gain and no loss, and 50 when all of them are zero
C28_RsiRangeAndConventions ==
    rollLast.op = "rsi" =>
        /\ Len(rollLast.values) < rollLast.period + 1 => IsNaN(rollLast.ret)
        /\ (rollLast.period > 0 /\ Len(rollLast.values) >= rollLast.period + 1) =>
               /\ Ge(rollLast.ret, Zero) /\ Le(rollLast.ret, R(100, 1))
               /\ ((\E i \in 1..rollLast.period : Gt(LastDeltas[i], Zero))
                       /\ (\A i \in 1..rollLast.period : Ge(LastDeltas[i], Zero))) =>
                      rollLast.ret = R(100, 1)
               /\ (\A i \in 1..rollLast.period : EqNum(LastDeltas[i], Zero)) =>
                      rollLast.ret = R(50, 1)

\* C28 witness: flat prices over a period of 3 gave 50
C28_Witness ==
    /\ rollLast.op = "rsi"
    /\ rollLast.period = 3
    /\ rollLast.values = <<R(2, 1), R(2, 1), R(2, 1), R(2, 1)>>
    /\ rollLast.ret = R(50, 1)

\* ------------------------------------------------------------------------
\* Feature factory (factory.ts): buildFeaturesSync and buildFeatures with its
\* normalization cache
\* ------------------------------------------------------------------------

\* BarSchema.parse(bar) does not throw
BarSchemaOk(bar) ==
    /\ bar.t > 0
    /\ IsPositive(bar.o) /\ IsPositive(bar.h) /\ IsPositive(bar.l) /\ IsPositive(bar.c)
    /\ IsNumber(bar.v) /\ Ge(bar.v, Zero)
    /\ bar.exch # "" /\ bar.symbol # ""
    /\ bar.tf \in {"1m", "5m", "1h", "1d"}

\* z.number().int().positive() applied to a possibly absent key
IsPositiveIntOrAbsent(x) ==
    IsUndefined(x) \/ (IsPositive(x) /\ ~IsInf(x) /\ x[3] = 1)

DefaultWindow == 20

DefaultRsiPeriod == 14

DefaultAtrPeriod == 14

DefaultMacdFast == 12

DefaultMacdSlow == 26

DefaultMacdSignal == 9

\* FeatureConfigSchema.parse(raw) does not throw
FeatureConfigSchemaOk(raw) ==
    /\ IsPositiveIntOrAbsent(raw.window)
    /\ IsPositiveIntOrAbsent(raw.rsiPeriod)
    /\ IsPositiveIntOrAbsent(raw.atrPeriod)
    /\ IsPositiveIntOrAbsent(raw.macdFast)
    /\ IsPositiveIntOrAbsent(raw.macdSlow)
    /\ IsPositiveIntOrAbsent(raw.macdSignal)

\* a period given, or its default
PeriodOr(x, dflt) ==
    IF IsUndefined(x) THEN dflt ELSE x[2]

\* the object FeatureConfigSchema.parse(raw) builds
FeatureConfigWithDefaults(raw) ==
    [ window |-> PeriodOr(raw.window, DefaultWindow),
      rsiPeriod |-> PeriodOr(raw.rsiPeriod, DefaultRsiPeriod),
      atrPeriod |-> PeriodOr(raw.atrPeriod, DefaultAtrPeriod),
      macdFast |-> PeriodOr(raw.macdFast, DefaultMacdFast),
      macdSlow |-> PeriodOr(raw.macdSlow, DefaultMacdSlow),
      macdSignal |-> PeriodOr(raw.macdSignal, DefaultMacdSignal) ]

Closes(bars) == [i \in 1..Len(bars) |-> bars[i].c]

Highs(bars) == [i \in 1..Len(bars) |-> bars[i].h]

Lows(bars) == [i \in 1..Len(bars) |-> bars[i].l]

\* computeReturns(bars)
ComputeReturns(bars) ==
    IF Len(bars) < 2 THEN [simpleReturn |-> NaN, logReturn |-> NaN]
    ELSE LET current == bars[Len(bars)].c
             previous == bars[Len(bars) - 1].c
         IN  [ simpleReturn |-> SimpleReturn(current, previous),
               logReturn |-> Ln(Div(current, previous)) ]

\* zScore(value, mean, std)
ZScore(value, mean, std) ==
    IF EqNum(std, Zero) THEN NaN ELSE Div(Sub(value, mean), std)

\* computeTrendStrength(bars, config)
ComputeTrendStrength(bars, cfg) ==
    IF Len(bars) < cfg.window THEN NaN
    ELSE LET fastEma == Ema(Closes(bars), 10, Undefined)
             slowEma == Ema(Closes(bars), 20, Undefined)
             atrVal == Atr(Highs(bars), Lows(bars), Closes(bars), cfg.atrPeriod)
         IN  IF IsNaN(fastEma) \/ IsNaN(slowEma) \/ IsNaN(atrVal) \/ EqNum(atrVal, Zero)
             THEN NaN
             ELSE Max(Neg(One), Min(One, Div(Sub(fastEma, slowEma), atrVal)))

\* the raw features both builders compute from the validated window
RawFeatures(bars, cfg) ==
    LET closes == Closes(bars)
    IN  [ latestBar |-> bars[Len(bars)],
          returns |-> ComputeReturns(bars),
          sma20 |-> Sma(closes, 20),
          ema12 |-> Ema(closes, cfg.macdFast, Undefined),
          ema26 |-> Ema(closes, cfg.macdSlow, Undefined),
          rsi14 |-> Rsi(closes, cfg.rsiPeriod),
          atr14 |-> Atr(Highs(bars), Lows(bars), closes, cfg.atrPeriod),
          macdResult |-> Macd(closes, cfg.macdFast, cfg.macdSlow, cfg.macdSignal),
          volatility |-> Stddev(closes, cfg.window),
          trendStrength |-> ComputeTrendStrength(bars, cfg) ]

\* mutant: no fallback, a null read is used as the number it coerces to
OrElse_NoFallback(a, b) ==
    IF a = NullNum \/ IsUndefined(a) THEN Zero ELSE a

\* a ?? b for a number-or-null a
OrElse(a, b) ==
    IF a = NullNum \/ IsUndefined(a) THEN b ELSE a

\* FeaturesSchema.parse(features) does not throw
FeatureVectorSchemaOk(features) ==
    /\ features.t > 0
    /\ features.exch # "" /\ features.symbol # ""
    /\ features.tf \in {"1m", "5m", "1h", "1d"}
    /\ FeaturesSchemaOk(features)

\* the vector both builders assemble from the raw features and the mean and
\* standard deviation used for the z-score, validated by FeaturesSchema.parse
FeatureVector(raw, meanClose, stdClose) ==
    LET features ==
            [ t |-> raw.latestBar.t, exch |-> raw.latestBar.exch,
              symbol |-> raw.latestBar.symbol, tf |-> raw.latestBar.tf,
              vals |-> [ close |-> raw.latestBar.c,
                         return_1 |-> raw.returns.simpleReturn,
                         log_return_1 |-> raw.returns.logReturn,
                         sma_20 |-> raw.sma20,
                         ema_12 |-> raw.ema12,
                         ema_26 |-> raw.ema26,
                         rsi_14 |-> raw.rsi14,
                         atr_14 |-> raw.atr14,
                         macd |-> raw.macdResult.macd,
                         macd_signal |-> raw.macdResult.signal,
                         macd_histogram |-> raw.macdResult.histogram,
                         volatility_20 |-> raw.volatility,
                         trend_strength |-> raw.trendStrength,
                         z_score_close |-> ZScore(raw.latestBar.c, meanClose, stdClose) ],
              regime |-> ClassifyRegime(raw.trendStrength,
                                        Div(raw.volatility, meanClose)) ]
    IN  IF FeatureVectorSchemaOk(features)
        THEN [kind |-> "features", features |-> features]
        ELSE Throw("ZodError")

\* the validation without the test of the window: too few bars go on
ValidationError_NoWindowCheck(bars, rawConfig) ==
    IF \E i \in 1..Len(bars) : ~BarSchemaOk(bars[i]) THEN "ZodError"
    ELSE IF ~FeatureConfigSchemaOk(rawConfig) THEN "ZodError"
    ELSE "none"

\* the validation both builders start with: the error raised, or "none"
ValidationError(bars, rawConfig) ==
    IF \E i \in 1..Len(bars) : ~BarSchemaOk(bars[i]) THEN "ZodError"
    ELSE IF ~FeatureConfigSchemaOk(rawConfig) THEN "ZodError"
    ELSE IF Len(bars) < FeatureConfigWithDefaults(rawConfig).window
         THEN "Insufficient data"
         ELSE "none"

\* buildFeaturesSync(bars, config)
BuildFeaturesSync(bars, rawConfig) ==
    IF ValidationError(bars, rawConfig) # "none"
    THEN Throw(ValidationError(bars, rawConfig))
    ELSE LET raw == RawFeatures(bars, FeatureConfigWithDefaults(rawConfig))
         IN  FeatureVector(raw, raw.sma20, raw.volatility)

\* createMockBars(count) of the tests: closes rising by 0.5 from 100, one
\* minute apart
MockBars(count) ==
    [ i \in 1..count |->
        LET c == Add(R(100, 1), R(i - 1, 2))
        IN  [ t |-> 60000 * i, o |-> Sub(c, R(2, 10)), h |-> Add(c, R(3, 10)),
              l |-> Sub(c, R(3, 10)), c |-> c, v |-> R(99 + i, 1),
              exch |-> "BINANCE", symbol |-> "BTCUSDT", tf |-> "1m" ] ]

\* bars of one constant close
FlatBars(count) ==
    [ i \in 1..count |->
        [ t |-> 60000 * i, o |-> R(100, 1), h |-> R(101, 1), l |-> R(99, 1),
          c |-> R(100, 1), v |-> R(100, 1),
          exch |-> "BINANCE", symbol |-> "BTCUSDT", tf |-> "1m" ] ]

\* the window of the test "throws for invalid bars": one bar, negative open
InvalidBars ==
    << [ t |-> 60000, o |-> R(-100, 1), h |-> R(101, 1), l |-> R(99, 1),
         c |-> R(100, 1), v |-> R(100, 1),
         exch |-> "BINANCE", symbol |-> "BTCUSDT", tf |-> "1m" ] >>

\* windows: too short for every configuration, too short for the default
\* window, exactly the default window (the slow MACD average is undefined),
\* enough for every indicator, flat, and invalid
BarWindows ==
    {MockBars(2), MockBars(10), MockBars(20), MockBars(34), FlatBars(34), InvalidBars}

DefaultFeatureConfig ==
    [ window |-> Undefined, rsiPeriod |-> Undefined, atrPeriod |-> Undefined,
      macdFast |-> Undefined, macdSlow |-> Undefined, macdSignal |-> Undefined ]

\* configurations: the default, one of short periods, one the schema rejects
RawFeatureConfigs ==
    { DefaultFeatureConfig,
      [ window |-> R(3, 1), rsiPeriod |-> R(2, 1), atrPeriod |-> R(2, 1),
        macdFast |-> R(2, 1), macdSlow |-> R(3, 1), macdSignal |-> R(2, 1) ],
      [DefaultFeatureConfig EXCEPT !.window = Zero] }

\* what the cache holds for the key before the calls
CacheContents ==
    [mean : {NullNum, R(100, 1)}, std : {NullNum, R(2, 1)}]

\* cache.getMean(key) / cache.getStdDev(key): the stub always misses
CacheRead(stat) ==
    IF cacheKind = "stub" THEN NullNum ELSE cacheStore[stat]

InitFactory ==
    /\ PolicyIdle
    /\ RiskIdle
    /\ MacdIdle
    /\ Ar4Idle
    /\ RollIdle
    /\ ReplayIdle
    /\ cacheKind \in {"stub", "store"}
    /\ cacheStore \in CacheContents
    /\ cacheKind = "stub" => cacheStore = [mean |-> NullNum, std |-> NullNum]
    /\ builds = [b \in Builders |-> [pc |-> "idle"]]
    /\ pendingWrites = {}

\* the second call is made once the first has been
MayStart(b) ==
    /\ builds[b].pc = "idle"
    /\ \A a \in Builders : a < b => builds[a].pc # "idle"

\* buildFeaturesSync(bars, config): one step, no cache
BuildFeaturesSyncCall(b, bars, rawConfig) ==
    /\ MayStart(b)
    /\ builds' = [builds EXCEPT ![b] =
                     [ pc |-> "done", async |-> FALSE, bars |-> bars,
                       rawConfig |-> rawConfig, reads |-> <<>>, writes |-> <<>>,
                       ret |-> BuildFeaturesSync(bars, rawConfig) ]]
    /\ UNCHANGED <<cacheKind, cacheStore, pendingWrites, besidesFactoryVars>>

\* buildFeatures(bars, config, cache) up to its first await: validation, the
\* raw features, and cache.getMean(key) called
BuildFeaturesStart(b, bars, rawConfig) ==
    /\ MayStart(b)
    /\ \E err \in {ValidationError(bars, rawConfig)} :
           builds' = [builds EXCEPT ![b] =
               IF err # "none"
               THEN [ pc |-> "done", async |-> TRUE, bars |-> bars,
                      rawConfig |-> rawConfig, reads |-> <<>>, writes |-> <<>>,
                      ret |-> Throw(err) ]
               ELSE [ pc |-> "awaitMean", async |-> TRUE, bars |-> bars,
                      rawConfig |-> rawConfig,
                      raw |-> RawFeatures(bars, FeatureConfigWithDefaults(rawConfig)),
                      reads |-> <<"mean">>, writes |-> <<>> ]]
    /\ UNCHANGED <<cacheKind, cacheStore, pendingWrites, besidesFactoryVars>>

\* await cache.getMean(key) resumes; cache.getStdDev(key) is called
BuildFeaturesGotMean(b) ==
    /\ builds[b].pc = "awaitMean"
    /\ builds' = [builds EXCEPT ![b] =
                     [ pc |-> "awaitStd", async |-> TRUE, bars |-> builds[b].bars,
                       rawConfig |-> builds[b].rawConfig, raw |-> builds[b].raw,
                       cachedMean |-> CacheRead("mean"),
                       reads |-> <<"mean", "std">>, writes |-> <<>> ]]
    /\ UNCHANGED <<cacheKind, cacheStore, pendingWrites, besidesFactoryVars>>

\* the write-backs buildFeatures issues: one per statistic that missed
WriteBacks_Always(raw, cachedMean, cachedStd) ==
    <<[stat |-> "mean", value |-> raw.sma20], [stat |-> "std", value |-> raw.volatility]>>

WriteBacks(raw, cachedMean, cachedStd) ==
    (IF cachedMean = NullNum THEN <<[stat |-> "mean", value |-> raw.sma20]>> ELSE <<>>)
        \o (IF cachedStd = NullNum THEN <<[stat |-> "std", value |-> raw.volatility]>>
            ELSE <<>>)

\* await cache.getStdDev(key) resumes and the call runs to its end: the
\* z-score, the write-backs (called, not awaited), the vector and its
\* validation
BuildFeaturesFinish(b) ==
    /\ builds[b].pc = "awaitStd"
    /\ \E cachedStd \in {CacheRead("std")} :
       \E writes \in {WriteBacks(builds[b].raw, builds[b].cachedMean, cachedStd)} :
           /\ builds' = [builds EXCEPT ![b] =
                  [ pc |-> "done", async |-> TRUE, bars |-> builds[b].bars,
                    rawConfig |-> builds[b].rawConfig, raw |-> builds[b].raw,
                    cachedMean |-> builds[b].cachedMean, cachedStd |-> cachedStd,
                    reads |-> <<"mean", "std">>, writes |-> writes,
                    ret |-> FeatureVector(builds[b].raw,
                                          OrElse(builds[b].cachedMean, builds[b].raw.sma20),
                                          OrElse(cachedStd, builds[b].raw.volatility)) ]]
           /\ pendingWrites' = pendingWrites \cup
                  {[by |-> b, stat |-> writes[i].stat, value |-> writes[i].value] :
                       i \in 1..Len(writes)}
    /\ UNCHANGED <<cacheKind, cacheStore, besidesFactoryVars>>

\* a write called earlier settles: it is stored, or its promise rejects and
\* the rejection is swallowed by .catch(() => {}); the stub stores nothing
WriteSettles(w, ok) ==
    /\ w \in pendingWrites
    /\ pendingWrites' = pendingWrites \ {w}
    /\ cacheStore' = IF ok /\ cacheKind = "store"
                     THEN [cacheStore EXCEPT ![w.stat] = w.value]
                     ELSE cacheStore
    /\ UNCHANGED <<cacheKind, builds, besidesFactoryVars>>

NextFactory ==
    \/ \E b \in Builders, bars \in BarWindows, rawConfig \in RawFeatureConfigs :
           BuildFeaturesSyncCall(b, bars, rawConfig)
    \/ \E b \in Builders, bars \in BarWindows, rawConfig \in RawFeatureConfigs :
           BuildFeaturesStart(b, bars, rawConfig)
    \/ \E b \in Builders : BuildFeaturesGotMean(b)
    \/ \E b \in Builders : BuildFeaturesFinish(b)
    \/ \E w \in pendingWrites, ok \in BOOLEAN : WriteSettles(w, ok)

SpecFactory == InitFactory /\ [][NextFactory]_vars

\* builder b has returned or raised
BuildDone(b) ==
    builds[b].pc = "done"

\* the arguments of builder b pass BarSchema and FeatureConfigSchema
ArgumentsValid(b) ==
    /\ \A i \in 1..Len(builds[b].bars) : BarSchemaOk(builds[b].bars[i])
    /\ FeatureConfigSchemaOk(builds[b].rawConfig)

WindowOf(b) ==
    FeatureConfigWithDefaults(builds[b].rawConfig).window

LastBarOf(b) ==
    builds[b].bars[Len(builds[b].bars)]

\* C22 (the claim as stated): buildFeaturesSync on at least config.window
\* schema-valid bars returns a FeatureVector carrying the timestamp, exchange,
\* symbol and timeframe of the last bar, also when an indicator is undefined
\* (NaN) for the window.  It fails: FeaturesSchema.parse rejects NaN values, so
\* the call raises whenever an indicator is undefined.
C22_SyncBuildReturnsVectorOfLastBar ==
    \A b \in Builders :
        (BuildDone(b) /\ ~builds[b].async /\ ArgumentsValid(b)
             /\ Len(builds[b].bars) >= WindowOf(b)) =>
            /\ builds[b].ret.kind = "features"
            /\ builds[b].ret.features.t = LastBarOf(b).t
            /\ builds[b].ret.features.exch = LastBarOf(b).exch
            /\ builds[b].ret.features.symbol = LastBarOf(b).symbol
            /\ builds[b].ret.features.tf = LastBarOf(b).tf

\* what holds of buildFeaturesSync: a vector that is returned is anchored at
\* the last bar and holds no NaN
C22_ReturnedVectorIsAnchoredAndDefined ==
    \A b \in Builders :
        (BuildDone(b) /\ builds[b].ret.kind = "features") =>
            /\ builds[b].ret.features.t = LastBarOf(b).t
            /\ builds[b].ret.features.exch = LastBarOf(b).exch
            /\ builds[b].ret.features.symbol = LastBarOf(b).symbol
            /\ builds[b].ret.features.tf = LastBarOf(b).tf
            /\ \A k \in DOMAIN builds[b].ret.features.vals :
                   ~IsNaN(builds[b].ret.features.vals[k])

\* C23: with schema-valid bars and a valid configuration, a builder given
\* fewer than config.window bars raises "Insufficient data" and returns no
\* vector, and the asynchronous builder has then called neither a read nor a
\* write of the cache
C23_InsufficientDataRaises ==
    \A b \in Builders :
        (BuildDone(b) /\ ArgumentsValid(b) /\ Len(builds[b].bars) < WindowOf(b)) =>
            /\ builds[b].ret = Throw("Insufficient data")
            /\ builds[b].reads = <<>>
            /\ builds[b].writes = <<>>
            /\ \A w \in pendingWrites : w.by # b

\* C23 witness: the asynchronous builder raised on 10 bars under the default
\* window while the other builder had read the cache
C23_Witness ==
    /\ BuildDone(2)
    /\ builds[2].async
    /\ Len(builds[2].bars) = 10
    /\ WindowOf(2) = DefaultWindow
    /\ builds[2].ret = Throw("Insufficient data")
    /\ BuildDone(1)
    /\ builds[1].reads = <<"mean", "std">>

\* the statistics of builder b's writes
WrittenStats(b) ==
    {builds[b].writes[i].stat : i \in 1..Len(builds[b].writes)}

SucceedsOnOwnStatistics(b) ==
    /\ BuildDone(b)
    /\ builds[b].async
    /\ Len(builds[b].reads) = 2
    /\ FeatureVector(builds[b].raw, builds[b].raw.sma20,
                     builds[b].raw.volatility).kind = "features"

\* C34 (the claim as stated, for the windows that leave no indicator
\* undefined): of two buildFeatures calls for one key against one cache,
\* under every interleaving of their reads and un-awaited writes, each
\* returns a FeatureVector whose z-score is against the value it read or its
\* own statistic; a cache update never makes a call fail.  It fails: a call
\* raises when the statistic it reads, written by the other call, is a
\* standard deviation of 0 or an undefined mean.
C34_ConcurrentBuildsNeverFail ==
    \A b \in Builders :
        SucceedsOnOwnStatistics(b) =>
            /\ builds[b].ret.kind = "features"
            /\ LET v == builds[b].ret.features.vals
               IN  \E mean \in {builds[b].cachedMean, v.sma_20},
                      std \in {builds[b].cachedStd, v.volatility_20} :
                       EqNum(Mul(v.z_score_close, std), Sub(v.close, mean))

\* what holds of concurrent buildFeatures calls: a call that missed both
\* statistics returns its vector whatever the other call and the writes do
MissingBuildsSucceed ==
    \A b \in Builders :
        (SucceedsOnOwnStatistics(b) /\ builds[b].cachedMean = NullNum
             /\ builds[b].cachedStd = NullNum) => builds[b].ret.kind = "features"

InitInstances ==
    /\ PolicyIdle
    /\ RiskIdle
    /\ MacdIdle
    /\ Ar4Idle
    /\ RestIdle

NextInstances ==
    \/ MacdIdle /\ Ar4Idle /\ Next
    \/ PolicyIdle /\ Ar4Idle /\ NextMACD
    \/ PolicyIdle /\ MacdIdle /\ NextAR4

SpecInstances == InitInstances /\ [][NextInstances]_vars

\* the k-th numeric return handed to a new AR4Alpha is one that fits the
\* model: the first (no coefficients yet), and every one that leaves a
\* history whose length is a multiple of 20
FitsAt(cfg, k) ==
    \/ k = 1
    \/ (IF k < cfg.fitWindow THEN k ELSE cfg.fitWindow) % RefitEvery = 0

\* the state a new AR4Alpha(cfg) is in after the numeric returns fed, computed
\* from cfg and fed alone: the history is the capped tail of fed, and the
\* coefficients are those fitted on the history of the latest fitting call
FreshAR4State(cfg, fed) ==
    LET n == Len(fed)
        w == cfg.fitWindow
        fits == {k \in 1..n : FitsAt(cfg, k)}
    IN  [ returnHistory |-> SubSeq(fed, (IF n < w THEN 1 ELSE n - w + 1), n),
          coefficients |->
              IF fits = {} THEN NullCoefficients
              ELSE LET f == CHOOSE k \in fits : \A j \in fits : j <= k
                   IN  FitAR4(SubSeq(fed, (IF f < w THEN 1 ELSE f - w + 1), f)) ]

\* right after reset a policy is Flat with size 0, a MACD alpha has its three
\* previous values null, an AR4 alpha has no coefficients and an empty history
ResetLeavesInitialState ==
    /\ last.op = "reset" => state = [side |-> Null, size |-> Zero]
    /\ macdLast.op = "reset" =>
           macdState = [prevMacd |-> NullNum, prevSignal |-> NullNum,
                        prevHistogram |-> NullNum]
    /\ ar4Last.op = "reset" =>
           ar4State = [coefficients |-> NullCoefficients, returnHistory |-> <<>>]

\* at any moment the state of an AR4 alpha is the state a new instance with
\* the same configuration has after the numeric returns handed since the
\* latest reset (or since construction when there was none)
BehavesAsNewSinceReset ==
    ar4Config # [none |-> TRUE] => ar4State = FreshAR4State(ar4Config, ar4Fed)

\* a reset() step leaves the configuration of the instance as it was
ResetKeepsConfiguration ==
    /\ (last'.op = "reset" /\ last' # last) => config' = config
    /\ (macdLast'.op = "reset" /\ macdLast' # macdLast) => macdConfig' = macdConfig
    /\ (ar4Last'.op = "reset" /\ ar4Last' # ar4Last) => ar4Config' = ar4Config

\* C29: reset() puts an instance back into the state of a newly constructed
\* one and leaves its configuration untouched: right after reset the state is
\* the initial one (Flat with size 0; previous values null; no coefficients
\* and an empty history), the configuration is the one held before, and from
\* there the instance answers as a new one with that configuration does
C29_ResetRestoresInitialState ==
    /\ [](ResetLeavesInitialState /\ BehavesAsNewSinceReset)
    /\ [][ResetKeepsConfiguration]_vars

\* C29 witness: reset() was called on an AR4 alpha that had fitted a model on
\* a full default window, and left it without coefficients and history
C29_Witness ==
    /\ ar4Last.op = "reset"
    /\ ar4Last.pre.coefficients # NullCoefficients
    /\ Len(ar4Last.pre.returnHistory) >= RefitEvery
    /\ ar4State = InitialAR4State

\* reset() was called on a policy that held a position, on a MACD alpha that
\* held previous values
ResetOfOpenPolicy ==
    last.op = "reset" /\ last.pre # FlatState

ResetOfFedMACD ==
    macdLast.op = "reset" /\ macdLast.pre # InitialMACDState


\* ------------------------------------------------------------------------
\* ReplayEngine and parseSessionLog (packages/sim replay)
\* ------------------------------------------------------------------------

\* a ReplayEvent: its type, its timestamp, and a tag that stands for its data
Event(type, ts, tag) == [type |-> type, ts |-> ts, tag |-> tag]

\* a line of a session log: the JSON of an event, a blank line, or a line
\* JSON.parse rejects
EventLine(e) == [kind |-> "event", event |-> e]

BlankLine == [kind |-> "blank"]

GarbageLine == [kind |-> "garbage"]

\* events.sort((a, b) => a.ts - b.ts): the sort is stable, so an event goes
\* behind the events sorted so far whose timestamp is not greater
RECURSIVE SortByTs(_)
SortByTs(events) ==
    IF events = <<>> THEN <<>>
    ELSE LET n == Len(events)
             head == SortByTs(SubSeq(events, 1, n - 1))
             e == events[n]
             k == Cardinality({i \in 1..Len(head) : head[i].ts <= e.ts})
         IN  SubSeq(head, 1, k) \o <<e>> \o SubSeq(head, k + 1, Len(head))

\* the events pushed by the loop over the lines, in line order
RECURSIVE ParsedEvents(_)
ParsedEvents(lines) ==
    IF lines = <<>> THEN <<>>
    ELSE LET n == Len(lines)
             before == ParsedEvents(SubSeq(lines, 1, n - 1))
         IN  IF lines[n].kind = "event" THEN Append(before, lines[n].event)
             ELSE before

\* the least and the greatest timestamp of the events ("now": there is none
\* and the code takes Date.now())
MinTs(events) ==
    IF events = <<>> THEN "now"
    ELSE CHOOSE t \in {events[i].ts : i \in 1..Len(events)} :
             \A i \in 1..Len(events) : t <= events[i].ts

MaxTs(events) ==
    IF events = <<>> THEN "now"
    ELSE CHOOSE t \in {events[i].ts : i \in 1..Len(events)} :
             \A i \in 1..Len(events) : t >= events[i].ts

\* parseSessionLog(jsonl, sessionId, seed)
ParseSessionLog(lines) ==
    [ session |-> [startTs |-> MinTs(ParsedEvents(lines)),
                   endTs |-> MaxTs(ParsedEvents(lines))],
      events |-> SortByTs(ParsedEvents(lines)) ]

\* no filter configured
NoFilter == [none |-> TRUE]

\* filter ? events.filter((e) => filter.includes(e.type)) : events
FilteredEvents(cfg) ==
    IF cfg.filter = NoFilter THEN cfg.events
    ELSE SelectSeq(cfg.events, LAMBDA e : e.type \in cfg.filter.types)

\* the largest number of events handed to the handler between two resets
MaxDeliveries == 5

\* event lists a ReplayEngine is configured with directly: the three events
\* of the test suite, the unsorted list of the parser's test, and none
MockEvents ==
    << Event("bar", 1, "a"), Event("alpha_signal", 2, "b"), Event("action", 3, "c") >>

UnsortedEvents ==
    << Event("action", 3, "a"), Event("bar", 1, "b"), Event("alpha_signal", 2, "c") >>

EventLists == {MockEvents, UnsortedEvents, <<>>}

\* session logs: the unsorted events one per line; lines with equal
\* timestamps between a blank and an unparseable line; an empty log
SessionLogs ==
    { << EventLine(UnsortedEvents[1]), EventLine(UnsortedEvents[2]),
         EventLine(UnsortedEvents[3]) >>,
      << EventLine(Event("bar", 2, "a")), BlankLine, GarbageLine,
         EventLine(Event("action", 1, "b")), EventLine(Event("bar", 1, "c")) >>,
      << BlankLine >> }

Filters == {NoFilter, [types |-> {"bar", "action"}]}

InitReplay ==
    /\ PolicyIdle
    /\ RiskIdle
    /\ MacdIdle
    /\ Ar4Idle
    /\ RestIdle

\* the speeds configured: 0 (instant, the default) and 1 (real time)
Speeds == {0, 1}

\* new ReplayEngine({session, events, filter, speed}) with one "*" handler
\* that records what it is handed
ReplayConstruct(events, filter, speed) ==
    /\ replayConfig = [none |-> TRUE]
    /\ replayConfig' = [events |-> events, filter |-> filter, speed |-> speed]
    /\ replayLast' = [op |-> "constructor", from |-> "events"]
    /\ UNCHANGED <<isPaused, currentEventIndex, runPc, runI, delivered, runEmitted>>
    /\ UNCHANGED <<decisionVars, rollVars, factoryVars>>

\* new ReplayEngine({...parseSessionLog(jsonl, id, seed), filter}); speed is
\* left to its default
ReplayConstructFromLog(lines, filter) ==
    /\ replayConfig = [none |-> TRUE]
    /\ \E parsed \in {ParseSessionLog(lines)} :
           /\ replayConfig' = [events |-> parsed.events, filter |-> filter, speed |-> 0]
           /\ replayLast' = [op |-> "constructor", from |-> "log", lines |-> lines,
                             session |-> parsed.session]
    /\ UNCHANGED <<isPaused, currentEventIndex, runPc, runI, delivered, runEmitted>>
    /\ UNCHANGED <<decisionVars, rollVars, factoryVars>>

\* emitEvent(event): the handler is handed the event
EmitEvent(event, by) ==
    /\ Len(delivered) < MaxDeliveries
    /\ delivered' = Append(delivered, [event |-> event, by |-> by])

\* mutant: step() hands the event over and does not advance
ReplayStep_NoAdvance ==
    /\ replayConfig # [none |-> TRUE]
    /\ LET filteredEvents == FilteredEvents(replayConfig)
       IN  IF currentEventIndex >= Len(filteredEvents)
           THEN /\ replayLast' = [op |-> "step", ret |-> [kind |-> "null"]]
                /\ UNCHANGED <<currentEventIndex, delivered>>
           ELSE LET event == filteredEvents[currentEventIndex + 1]
                IN  /\ currentEventIndex' = currentEventIndex
                    /\ EmitEvent(event, "step")
                    /\ replayLast' = [op |-> "step",
                                      ret |-> [kind |-> "event", event |-> event]]
    /\ UNCHANGED <<replayConfig, isPaused, runPc, runI, runEmitted>>
    /\ UNCHANGED <<decisionVars, rollVars, factoryVars>>

\* engine.step()
ReplayStep ==
    /\ replayConfig # [none |-> TRUE]
    /\ LET filteredEvents == FilteredEvents(replayConfig)
       IN  IF currentEventIndex >= Len(filteredEvents)
           THEN /\ replayLast' = [op |-> "step", ret |-> [kind |-> "null"]]
                /\ UNCHANGED <<currentEventIndex, delivered>>
           ELSE LET event == filteredEvents[currentEventIndex + 1]
                IN  /\ currentEventIndex' = currentEventIndex + 1
                    /\ EmitEvent(event, "step")
                    /\ replayLast' = [op |-> "step",
                                      ret |-> [kind |-> "event", event |-> event]]
    /\ UNCHANGED <<replayConfig, isPaused, runPc, runI, runEmitted>>
    /\ UNCHANGED <<decisionVars, rollVars, factoryVars>>

\* engine.pause()
ReplayPause ==
    /\ replayConfig # [none |-> TRUE]
    /\ isPaused' = TRUE
    /\ replayLast' = [op |-> "pause"]
    /\ UNCHANGED <<replayConfig, currentEventIndex, runPc, runI, delivered, runEmitted>>
    /\ UNCHANGED <<decisionVars, rollVars, factoryVars>>

\* engine.resume()
ReplayResume ==
    /\ replayConfig # [none |-> TRUE]
    /\ isPaused' = FALSE
    /\ replayLast' = [op |-> "resume"]
    /\ UNCHANGED <<replayConfig, currentEventIndex, runPc, runI, delivered, runEmitted>>
    /\ UNCHANGED <<decisionVars, rollVars, factoryVars>>

\* engine.reset(); a run() in progress keeps its loop variable
ReplayReset ==
    /\ replayConfig # [none |-> TRUE]
    /\ currentEventIndex' = 0
    /\ isPaused' = FALSE
    /\ delivered' = <<>>
    /\ replayLast' = [op |-> "reset"]
    /\ UNCHANGED <<replayConfig, runPc, runI, runEmitted>>
    /\ UNCHANGED <<decisionVars, rollVars, factoryVars>>

\* run() waits before the event at i (0-based): speed > 0 and the event is
\* later than the one before it (lastTs starts as the timestamp of the first)
Delays(cfg, i) ==
    /\ cfg.speed > 0
    /\ i >= 1
    /\ FilteredEvents(cfg)[i + 1].ts - FilteredEvents(cfg)[i].ts > 0

\* await this.emitEvent(event) for the event at i, up to the await
RunEmit(i, afterWait) ==
    /\ EmitEvent(FilteredEvents(replayConfig)[i + 1], "run")
    /\ runEmitted' = Append(runEmitted, [event |-> FilteredEvents(replayConfig)[i + 1],
                                         afterWait |-> afterWait])
    /\ runPc' = "top"
    /\ runI' = i + 1
    /\ UNCHANGED replayLast

\* the body of run()'s loop for the event at i behind the pause test: the
\* index is assigned, then the event is emitted at once or after the delay
RunBody(i, afterWait) ==
    /\ currentEventIndex' = i
    /\ IF Delays(replayConfig, i)
       THEN /\ runPc' = "delaying"
            /\ runI' = i
            /\ UNCHANGED <<delivered, runEmitted, replayLast>>
       ELSE RunEmit(i, afterWait)

\* run() from the loop test for i to its next await or its return
RunFrom(i) ==
    IF i >= Len(FilteredEvents(replayConfig))
    THEN /\ runPc' = "done"
         /\ runI' = i
         /\ replayLast' = [op |-> "run", ret |-> [kind |-> "completed"]]
         /\ UNCHANGED <<currentEventIndex, delivered, runEmitted>>
    ELSE IF isPaused
    THEN /\ runPc' = "waiting"
         /\ runI' = i
         /\ UNCHANGED <<currentEventIndex, delivered, runEmitted, replayLast>>
    ELSE RunBody(i, FALSE)

\* engine.run() is called (no other run() of the engine is in progress), up
\* to its first await or its return: the loop at i = 0, where no delay is due
ReplayRun ==
    /\ replayConfig # [none |-> TRUE]
    /\ runPc \in {"idle", "done"}
    /\ IF Len(FilteredEvents(replayConfig)) = 0
       THEN /\ runPc' = "done"
            /\ runI' = 0
            /\ runEmitted' = <<>>
            /\ replayLast' = [op |-> "run", ret |-> [kind |-> "completed"]]
            /\ UNCHANGED <<currentEventIndex, delivered>>
       ELSE IF isPaused
       THEN /\ runPc' = "waiting"
            /\ runI' = 0
            /\ runEmitted' = <<>>
            /\ UNCHANGED <<currentEventIndex, delivered, replayLast>>
       ELSE /\ currentEventIndex' = 0
            /\ EmitEvent(FilteredEvents(replayConfig)[1], "run")
            /\ runEmitted' = <<[event |-> FilteredEvents(replayConfig)[1],
                                afterWait |-> FALSE]>>
            /\ runPc' = "top"
            /\ runI' = 1
            /\ UNCHANGED replayLast
    /\ UNCHANGED <<replayConfig, isPaused>>
    /\ UNCHANGED <<decisionVars, rollVars, factoryVars>>

\* run() goes on after the await of emitEvent
RunContinue ==
    /\ runPc = "top"
    /\ RunFrom(runI)
    /\ UNCHANGED <<replayConfig, isPaused>>
    /\ UNCHANGED <<decisionVars, rollVars, factoryVars>>

\* mutant: a run() that has waited goes on with the event after the one due
RunWake_SkipsEvent ==
    /\ runPc = "waiting"
    /\ ~isPaused
    /\ runPc' = "top"
    /\ runI' = runI + 1
    /\ UNCHANGED <<currentEventIndex, delivered, runEmitted, replayLast>>
    /\ UNCHANGED <<replayConfig, isPaused>>
    /\ UNCHANGED <<decisionVars, rollVars, factoryVars>>

\* the 100 ms poll of a paused run() finds the engine resumed
RunWake ==
    /\ runPc = "waiting"
    /\ ~isPaused
    /\ RunBody(runI, TRUE)
    /\ UNCHANGED <<replayConfig, isPaused>>
    /\ UNCHANGED <<decisionVars, rollVars, factoryVars>>

\* the delay before the event at runI has passed
RunAfterDelay ==
    /\ runPc = "delaying"
    /\ RunEmit(runI, FALSE)
    /\ UNCHANGED <<replayConfig, isPaused, currentEventIndex>>
    /\ UNCHANGED <<decisionVars, rollVars, factoryVars>>

\* getProgress(): current, total and percent as the code computes them
GetProgress(cfg, index) ==
    LET total == Len(cfg.events)
        current == index
    IN  [ current |-> current,
          total |-> total,
          percent |-> IF total > 0
                      THEN Mul(Div(R(current, 1), R(total, 1)), R(100, 1))
                      ELSE Zero ]

\* engine.getProgress()
ReplayGetProgress ==
    /\ replayConfig # [none |-> TRUE]
    /\ replayLast' = [op |-> "getProgress", handedOver |-> Len(delivered),
                      ret |-> GetProgress(replayConfig, currentEventIndex)]
    /\ UNCHANGED <<replayConfig, isPaused, currentEventIndex, runPc, runI, delivered,
                   runEmitted>>
    /\ UNCHANGED <<decisionVars, rollVars, factoryVars>>

NextReplay ==
    \/ \E events \in EventLists, filter \in Filters, speed \in Speeds :
           ReplayConstruct(events, filter, speed)
    \/ \E lines \in SessionLogs, filter \in Filters : ReplayConstructFromLog(lines, filter)
    \/ ReplayStep
    \/ ReplayPause
    \/ ReplayResume
    \/ ReplayReset
    \/ ReplayRun
    \/ RunContinue
    \/ RunWake
    \/ RunAfterDelay
    \/ ReplayGetProgress

SpecReplay == InitReplay /\ [][NextReplay]_vars

\* the continuation of run() behind an await runs once it can: the event loop
\* resumes a resolved await, fires a timer that is due, and polls a waiting
\* run() every 100 ms
SpecReplayLive ==
    /\ InitReplay
    /\ [][NextReplay]_vars
    /\ WF_vars(RunContinue)
    /\ WF_vars(RunWake)
    /\ WF_vars(RunAfterDelay)

\* the engine has been driven by step() alone since construction or the
\* latest reset(): no run() has handed an event over since, and none is in
\* the delay before an event (where it has assigned the index already)
StepsOnly ==
    /\ replayConfig # [none |-> TRUE]
    /\ \A i \in 1..Len(delivered) : delivered[i].by = "step"
    /\ runPc # "delaying"

\* the timestamps of a list of events never decrease
SortedByTs(events) ==
    \A i \in 1..(Len(events) - 1) : events[i].ts <= events[i + 1].ts

\* C30 (the claim as stated): the events handed to the handler since
\* construction or the latest reset(), by run() and by step(), carry
\* timestamps that never decrease, whatever event list the engine was
\* configured with; and the events parseSessionLog returns are sorted by
\* timestamp whatever the order of the lines.  The first part fails: the
\* engine replays config.events in list order and never sorts it.
C30_DeliveredInTimestampOrder ==
    /\ \A i \in 1..(Len(delivered) - 1) :
           delivered[i].event.ts <= delivered[i + 1].event.ts
    /\ (replayConfig # [none |-> TRUE] /\ replayLast.op = "constructor"
            /\ replayLast.from = "log") => SortedByTs(replayConfig.events)

\* what holds of parseSessionLog: the events returned are the events of the
\* parseable lines, each once, sorted by timestamp, events of equal
\* timestamp in line order
ParsedLogIsSorted ==
    (replayLast.op = "constructor" /\ replayLast.from = "log") =>
        /\ SortedByTs(replayConfig.events)
        /\ Len(replayConfig.events) = Len(ParsedEvents(replayLast.lines))
        /\ \A i \in 1..Len(ParsedEvents(replayLast.lines)) :
               \E j \in 1..Len(replayConfig.events) :
                   replayConfig.events[j] = ParsedEvents(replayLast.lines)[i]

\* what holds of an engine whose event list is sorted (one a parsed log
\* gives) and that has been driven by step() alone since construction or the
\* latest reset(): the deliveries are in timestamp order
StepsDeliverSortedListInOrder ==
    (StepsOnly /\ SortedByTs(replayConfig.events)) =>
        \A i \in 1..(Len(delivered) - 1) :
            delivered[i].event.ts <= delivered[i + 1].event.ts


\* the events handed over so far, in the order of the handing over
DeliveredEvents ==
    [i \in 1..Len(delivered) |-> delivered[i].event]

\* C31: on an engine driven by step() alone, with N events in its (filtered)
\* list, the events handed over so far are the first ones of the list, in
\* list order and each once; a step() that returns an event returns the one
\* it handed over, which is the next of the list; a step() returns null only
\* when all N have been handed over, and hands nothing over
C31_StepsDeliverListInOrderOnce ==
    StepsOnly =>
        LET filteredEvents == IF replayConfig.filter = NoFilter
                              THEN replayConfig.events
                              ELSE SelectSeq(replayConfig.events,
                                             LAMBDA e : e.type \in replayConfig.filter.types)
            n == Len(delivered)
        IN  /\ n <= Len(filteredEvents)
            /\ DeliveredEvents = SubSeq(filteredEvents, 1, n)
            /\ currentEventIndex = n
            /\ (replayLast.op = "step" /\ replayLast.ret.kind = "event") =>
                   /\ n >= 1
                   /\ replayLast.ret.event = filteredEvents[n]
            /\ (replayLast.op = "step" /\ replayLast.ret.kind = "null") =>
                   n = Len(filteredEvents)

\* C31 witness: a filter leaves two of three events; two step() calls have
\* handed them over and a third has returned null
C31_Witness ==
    /\ StepsOnly
    /\ replayConfig.filter # NoFilter
    /\ Len(replayConfig.events) = 3
    /\ Len(delivered) = 2
    /\ delivered[1].event # delivered[2].event
    /\ replayLast.op = "step"
    /\ replayLast.ret.kind = "null"


\* the number of events the engine hands over in one replay
ToDeliver ==
    Len(FilteredEvents(replayConfig))

\* C32 (the claim as stated): getProgress() reports as current the number of
\* events handed over so far, as total the number of events the engine hands
\* over in one replay, and as percent current / total * 100: 0 before any
\* delivery and 100 once all have been handed over, with or without a filter
\* and whether step() or run() handed them over.  It fails with a filter
\* (total counts the unfiltered list) and after run() (which leaves the index
\* on the last event, not behind it).
C32_ProgressCountsDeliveries ==
    (replayLast.op = "getProgress" /\ replayLast.handedOver <= ToDeliver) =>
        /\ replayLast.ret.current = replayLast.handedOver
        /\ replayLast.ret.total = ToDeliver
        /\ ToDeliver > 0 =>
               replayLast.ret.percent =
                   Mul(Div(R(replayLast.handedOver, 1), R(ToDeliver, 1)), R(100, 1))
        /\ replayLast.handedOver = 0 => replayLast.ret.percent = Zero
        /\ (ToDeliver > 0 /\ replayLast.handedOver = ToDeliver) =>
               replayLast.ret.percent = R(100, 1)

\* what holds of getProgress(): on an engine without a filter, driven by
\* step() alone, current is the number of events handed over, total the
\* length of the list and percent their ratio times 100
ProgressOfUnfilteredSteps ==
    (replayLast.op = "getProgress" /\ StepsOnly /\ replayConfig.filter = NoFilter) =>
        /\ replayLast.ret.current = Len(delivered)
        /\ replayLast.ret.total = Len(replayConfig.events)
        /\ Len(delivered) = 0 => replayLast.ret.percent = Zero
        /\ (Len(delivered) = Len(replayConfig.events) /\ Len(delivered) > 0) =>
               replayLast.ret.percent = R(100, 1)


\* a run() call is in progress
RunInProgress ==
    runPc \in {"top", "waiting", "delaying"}

\* the events a run() call has emitted are the first ones of the filtered
\* list, in list order and each once, and all of them once it has returned
RunEmitsListInOrderOnce ==
    replayConfig # [none |-> TRUE] =>
        /\ [i \in 1..Len(runEmitted) |-> runEmitted[i].event]
               = SubSeq(FilteredEvents(replayConfig), 1, Len(runEmitted))
        /\ RunInProgress => Len(runEmitted) = runI
        /\ runPc = "done" => Len(runEmitted) = Len(FilteredEvents(replayConfig))

\* while the engine is paused a run() emits nothing, but for the event whose
\* delay (speed > 0) was under way when pause() was called
PausedRunEmitsNothing ==
    (isPaused /\ isPaused' /\ Len(runEmitted') > Len(runEmitted)) =>
        (runPc = "delaying" /\ runPc' = "top")

\* C33: a run() in progress on a paused engine emits no event beyond the one
\* already under way, for as long as the engine stays paused; a run() in
\* progress on an engine that is not paused (resumed, or never paused)
\* returns in the end, unless the engine is paused again (or the bound on
\* the deliveries followed is reached); and whatever pauses there were, the
\* events a run() emits are those of its list, each once, in list order
C33_PauseHoldsRunAndResumeCompletesIt ==
    /\ [][PausedRunEmitsNothing]_vars
    /\ []RunEmitsListInOrderOnce
    /\ (RunInProgress /\ ~isPaused)
           ~> (runPc = "done" \/ isPaused \/ Len(delivered) = MaxDeliveries)

\* C33 witness: a run() over three events has returned; it had to wait (the
\* engine was paused) before its second event, and emitted all three
C33_Witness ==
    /\ runPc = "done"
    /\ Len(runEmitted) = 3
    /\ ~runEmitted[1].afterWait
    /\ runEmitted[2].afterWait
    /\ replayLast = [op |-> "run", ret |-> [kind |-> "completed"]]


\* the events run() calls have handed over since construction or the latest
\* reset()
DeliveredByRun ==
    SelectSeq(delivered, LAMBDA d : d.by = "run")

\* the one run() call made has returned and no reset() has been called since
\* it began: what it emitted is all that run() has handed over
RunCompletedWithoutReset ==
    /\ replayConfig # [none |-> TRUE]
    /\ runPc = "done"
    /\ Len(DeliveredByRun) = Len(runEmitted)

\* C39 (the claim as stated): once run() has returned, and as long as reset()
\* is not called, a step() returns null and hands nothing over, and no event
\* has been handed over twice by run() and step() together.  It fails: run()
\* leaves the index on the last event and starts at the first whatever
\* step() has handed over.
C39_StepAfterRunReturnsNull ==
    RunCompletedWithoutReset =>
        /\ replayLast.op = "step" => replayLast.ret.kind = "null"
        /\ \A i, j \in 1..Len(delivered) :
               delivered[i].event = delivered[j].event => i = j

\* what holds after a run() that has returned on an engine step() was not
\* used on: the index is on the last event of the filtered list, not behind it
IndexAfterRun ==
    (/\ RunCompletedWithoutReset
     /\ replayLast = [op |-> "run", ret |-> [kind |-> "completed"]]
     /\ Len(runEmitted) >= 1
     /\ \A i \in 1..Len(delivered) : delivered[i].by = "run") =>
        currentEventIndex = Len(FilteredEvents(replayConfig)) - 1


\* ------------------------------------------------------------------------
\* Further properties of MACDAlpha, AR4Alpha and ThresholdAtrPolicy
\* ------------------------------------------------------------------------

CrossoverTexts ==
    {"MACD bullish crossover detected", "MACD bearish crossover detected"}

\* C35: a signal emitted with crossover mode disabled, or by a call made
\* before any observation was recorded since construction or reset, is
\* histogram-based and never a crossover signal: its score is the histogram
\* times 1000 clamped to [-1, 1], its confidence is 0.3, 0.5 or 0.7 (0.5 when
\* no observation was recorded), and its explanation is the histogram's
C35_NoCrossoverWhenDisabledOrFirst ==
    (/\ macdLast.op = "generateSignal"
     /\ macdLast.ret.kind = "signal"
     /\ ~macdConfig.useCrossover \/ macdLast.pre = InitialMACDState) =>
        LET sig == macdLast.ret.signal
        IN  /\ sig.explain.text \notin CrossoverTexts
            /\ sig.score = Max(Neg(One), Min(One, Mul(LastHistogram, R(1000, 1))))
            /\ sig.conf \in {R(3, 10), R(1, 2), R(7, 10)}
            /\ macdLast.pre = InitialMACDState => sig.conf = R(1, 2)

\* C35 witness: crossover mode is disabled, MACD was below its signal line at
\* the previous call and is above it now, and the signal emitted is the
\* histogram's, with a score below 1
C35_Witness ==
    /\ macdLast.op = "generateSignal"
    /\ ~macdConfig.useCrossover
    /\ CrossedUp
    /\ macdLast.ret.kind = "signal"
    /\ macdLast.ret.signal.explain.text = "MACD histogram positive"
    /\ Lt(macdLast.ret.signal.score, One)


\* C36 (the claim as stated): a generateAction call that raises leaves the
\* side and the size of the policy exactly as they were before the call, and
\* so does a call that returns null.  It fails for calls that raise on the
\* validation of the action about to be returned: the state is assigned
\* before ActionSchema.parse.
C36_RaisingCallLeavesState ==
    (last.op = "generateAction" /\ last.ret.kind # "action") => state = last.pre

\* what holds of calls that raise on the validation of the signal or of the
\* features, and of calls that return null: the state is as before
RejectedInputLeavesState ==
    (/\ last.op = "generateAction"
     /\ \/ last.ret.kind = "null"
        \/ ~AlphaSignalSchemaOk(last.signal)
        \/ ~FeaturesSchemaOk(last.features)) => state = last.pre


\* the last AR4Alpha call was generateSignal without a usable return_1
AR4CalledWithoutInput ==
    /\ ar4Last.op = "generateSignal"
    /\ MissingOrNaN(ar4Last.features.vals.return_1)

\* the last MACDAlpha call was generateSignal without one of its three values
MACDCalledWithoutInput ==
    /\ macdLast.op = "generateSignal"
    /\ \/ MissingOrNaN(macdLast.features.vals.macd)
       \/ MissingOrNaN(macdLast.features.vals.macd_signal)
       \/ MissingOrNaN(macdLast.features.vals.macd_histogram)

\* C37: a generateSignal call whose required input is missing or NaN returns
\* null and leaves the state of the generator as it was (the AR(4) history
\* and coefficients, with no refit; the previous MACD values), and neither
\* the stored history nor the previous MACD values ever hold NaN.
C37_MissingInputLeavesState ==
    /\ AR4CalledWithoutInput =>
           /\ ar4Last.ret = RetNull
           /\ ar4State = ar4Last.pre
           /\ ~ar4Last.refit
    /\ MACDCalledWithoutInput =>
           /\ macdLast.ret = RetNull
           /\ macdState = macdLast.pre
    /\ ar4Config # [none |-> TRUE] =>
           \A k \in 1..Len(ar4State.returnHistory) : ~IsNaN(ar4State.returnHistory[k])
    /\ macdConfig # [none |-> TRUE] =>
           /\ ~IsNaN(macdState.prevMacd)
           /\ ~IsNaN(macdState.prevSignal)
           /\ ~IsNaN(macdState.prevHistogram)

\* a NaN return_1 arrives at an AR4Alpha holding a fitted model
C37_Witness ==
    /\ AR4CalledWithoutInput
    /\ IsNaN(ar4Last.features.vals.return_1)
    /\ Len(ar4State.returnHistory) >= 20
    /\ ar4State.coefficients # NullCoefficients
    /\ ar4State.coefficients # ZeroFit

\* a NaN histogram arrives at a MACDAlpha that holds an earlier observation
NaNAfterMACDObservation ==
    /\ MACDCalledWithoutInput
    /\ IsNaN(macdLast.features.vals.macd_histogram)
    /\ macdState.prevMacd # NullNum


\* fewer than 20 numeric returns have reached the AR4Alpha since it was
\* constructed or reset, and at least one
InFirst19Returns ==
    /\ ar4Config # [none |-> TRUE]
    /\ Len(ar4Fed) \in 1..(RefitEvery - 1)

\* C38: on a fresh AR4Alpha the first numeric return triggers a fit, on fewer
\* than 10 returns, that stores all-zero coefficients with R-squared 0, and
\* the model is not fitted again before the history holds 20 returns; so
\* during the first 19 numeric returns no signal is emitted when
\* minRSquared > 0, and with minRSquared = 0 every signal emitted has score 0
\* and confidence 0.
C38_FirstFitIsZeroUntil20 ==
    /\ InFirst19Returns =>
           /\ ar4Fits = <<1>>
           /\ ar4State.coefficients = ZeroFit
           /\ Gt(ar4Config.minRSquared, Zero) => ar4Last.ret = RetNull
           /\ ar4Last.ret.kind = "signal" =>
                  /\ EqNum(ar4Config.minRSquared, Zero)
                  /\ EqNum(ar4Last.ret.signal.score, Zero)
                  /\ ar4Last.ret.signal.conf = Zero
    /\ \A i \in 2..Len(ar4Fits) : ar4Fits[i] >= RefitEvery
    /\ Len(ar4Fits) >= 2 => ar4Fits[2] = RefitEvery

\* the 19th numeric return of an AR4Alpha with minRSquared = 0 is answered
\* with a signal of score 0 and confidence 0, the only fit being the first
C38_Witness ==
    /\ ar4Config # [none |-> TRUE]
    /\ Len(ar4Fed) = RefitEvery - 1
    /\ ar4Fits = <<1>>
    /\ ar4State.coefficients = ZeroFit
    /\ ar4Last.op = "generateSignal"
    /\ ar4Last.ret.kind = "signal"
    /\ EqNum(ar4Last.ret.signal.score, Zero)

\* the 20th numeric return brings the second fit
SecondFitAt20 ==
    /\ Len(ar4Fed) = RefitEvery
    /\ ar4Fits = <<1, RefitEvery>>
    /\ ar4Last.ret.kind = "signal"
    /\ ar4State.coefficients # ZeroFit

\* in the first 19 returns a call with minRSquared = 0 raises instead of
\* emitting when one of the last four returns is infinite (0 * Infinity)
ZeroFitOnInfiniteReturnThrows ==
    /\ InFirst19Returns
    /\ ar4Last.op = "generateSignal"
    /\ ar4Last.ret.kind = "throw"

====
